---------------------------- MODULE Spec2Model ----------------------------
(***************************************************************************)
(* Model of modern-phone-checker: the persistent cache (CacheManager,      *)
(* phone_checker/cache.py) and the orchestrator (PhoneChecker,             *)
(* phone_checker/core.py).                                                 *)
(*                                                                         *)
(* Strings that the code takes apart (phone numbers, country codes, cache  *)
(* keys) are sequences of one-character strings.  Time is a counter of     *)
(* seconds (datetime.now()).  A freshness score 1 - age/expire_after is    *)
(* kept as its numerator over ExpireAfter.  Byte sizes are the lengths of  *)
(* the JSON texts json.dumps produces, computed from the shape of the      *)
(* entry.                                                                  *)
(*                                                                         *)
(* Specifications: SpecCache drives the CacheManager API directly, Spec    *)
(* drives a PhoneChecker that owns the CacheManager, SpecFaults drives the *)
(* CacheManager API on a file system that may refuse a write or a removal, *)
(* SpecRestart lets a new CacheManager take over the directory.            *)
(***************************************************************************)
EXTENDS Integers, Sequences, FiniteSets, TLC

VARIABLES
    now,          \* datetime.now(), in seconds
    cache_data,   \* CacheManager.cache_data: key -> entry
    key_order,    \* insertion order of the cache_data dict
    disk,         \* the *.json files of cache_dir: key -> file content
    stats,        \* CacheManager.stats
    use_cache,    \* PhoneChecker.use_cache
    ostats,       \* PhoneChecker.stats
    call_count,   \* number of check() invocations of each adapter
    last,         \* the operation that produced this state, with its inputs
    ret,          \* what that operation returned
    evicted,      \* entries that left the index during an eviction, so far
    nops,         \* operations so far
    shared,       \* keys whose index entry holds the very metadata dicts of
                  \* the results of a response check_number returned
    tasks,        \* the check_number coroutines of check_multiple_numbers
    gathered,     \* what check_multiple_numbers returned, if it has
    lock,         \* CacheManager._lock: the coroutine that holds it, if any
    callers,      \* the coroutines that call the CacheManager concurrently
    committed,    \* the index as the last completed operation left it
    timestamps,   \* RateLimiter.timestamps, each as its age in seconds
    lockQueue,    \* RateLimiter._lock: its holder, then the waiters in order
    acquirers,    \* the coroutines that call RateLimiter.acquire
    admitted,     \* the ages of the latest moments an acquire returned
    platform_scores,  \* ConfidenceScorer.platform_scores
    scored,       \* the last get_confidence_score call and what it returned
    constructed,  \* the PhoneCheckResult objects constructed so far
    response,     \* the PhoneCheckResponse constructed from them, if any
    retry         \* the _make_request call of an adapter

vars == <<now, cache_data, key_order, disk, stats, use_cache, ostats,
          call_count, last, ret, evicted, nops, shared, tasks, gathered,
          lock, callers, committed, timestamps, lockQueue, acquirers, admitted,
          platform_scores, scored, constructed, response, retry>>

\* the coroutines in flight
batchVars == <<tasks, gathered>>

\* the lock of the cache and the coroutines that contend for it
lockVars == <<lock, callers, committed>>

\* the rate limiter and the coroutines that call it
limiterVars == <<timestamps, lockQueue, acquirers, admitted>>

\* the confidence scorer
scorerVars == <<platform_scores, scored>>

\* the data objects constructed directly
modelsVars == <<constructed, response>>

\* the HTTP request of an adapter
retryVars == <<retry>>

\* the state that only the specifications with concurrent callers, and
\* the specifications of the scorer, of the data objects and of the
\* adapter request, use
extraVars == <<batchVars, lockVars, limiterVars, scorerVars, modelsVars, retryVars>>

cacheVars == <<cache_data, key_order, disk, stats>>

-----------------------------------------------------------------------------
(* Bounds of the model *)

\* cache operations in a run of SpecCache
MaxOps == 4

\* PhoneChecker operations in a run of Spec
MaxCalls == 2

\* cache operations in a run of SpecFaults and of SpecRestart
MaxSteps == 3

\* seconds that pass in a run
MaxTime == 2

\* CacheManager.expire_after, in seconds (test_cache.py uses 1)
ExpireAfter == 2

\* max_size_mb * 1024 * 1024, in bytes (test_cache.py uses 0.001 MB)
MaxSizeBytes == 1048

\* PhoneChecker.max_concurrent_checks in the runs with concurrent requests
MaxConcurrentChecks == 1

\* RateLimiter(calls, period): the calls allowed per period, and the period
\* in seconds (test_utils.py uses calls=2, period=1)
Calls == 2

Period == 2

\* update_platform_reliability calls in a run of SpecConfidence
MaxUpdates == 3

\* PhoneCheckResult objects constructed in a run of SpecModels
MaxResults == 2

\* _make_request calls in a run of SpecRequest
MaxRequests == 3

\* PlatformConfig.retry_attempts: the default, the largest value a
\* configuration of the package gives
DefaultRetryAttempts == 3

-----------------------------------------------------------------------------
(* Small helpers *)

Max(a, b) == IF a >= b THEN a ELSE b

Range(s) == {s[i] : i \in 1..Len(s)}

RECURSIVE SumOver(_, _)
SumOver(S, f) ==
    IF S = {} THEN 0
    ELSE LET x == CHOOSE y \in S : TRUE
         IN  f[x] + SumOver(S \ {x}, f)

\* dict minus one key
Drop(f, k) == [x \in (DOMAIN f) \ {k} |-> f[x]]

\* dict with one key set
Put(f, k, v) == [x \in (DOMAIN f) \cup {k} |-> IF x = k THEN v ELSE f[x]]

RemoveFromSeq(s, k) == SelectSeq(s, LAMBDA x : x # k)

-----------------------------------------------------------------------------
(* Inputs *)

CountryCodes == {<<"3", "3">>}

Digits == {"0", "1", "2", "3", "4", "5", "6", "7", "8", "9"}

Statuses == {"exists", "not_exists", "error", "timeout", "rate_limited", "unknown"}

\* An optional value (None or a value) is the empty set or a singleton.
None == {}

Some(x) == {x}

TheValue(o) == CHOOSE x \in o : TRUE

-----------------------------------------------------------------------------
(* PhoneCheckResult (models.py) *)

\* PhoneCheckResult.is_successful
IsSuccessful(r) == r.status \in {"exists", "not_exists"}

\* PhoneCheckResult.__post_init__: the existence flag, given the exists
\* argument and the status
PostInitExists(status, exists) ==
    IF status = "exists" THEN TRUE
    ELSE IF status = "not_exists" THEN FALSE
    ELSE IF status \in {"error", "timeout"} THEN FALSE
    ELSE exists

\* A result as the orchestrator and the cache hold it.  error is the length
\* of the error message, if any; cached and freshness_score are the two
\* metadata keys the orchestrator sets on a cache hit.
MkResult(platform, status, exists, error) ==
    [platform |-> platform, status |-> status,
     exists |-> PostInitExists(status, exists), error |-> error,
     cached |-> FALSE, freshness_score |-> None]

-----------------------------------------------------------------------------
(* json.dumps: the length of the text, compact (the default separators     *)
(* ", " and ": ") or with indent=2 (one item per line, the separators ","  *)
(* and ": ").  itemsLen is the sum over the items of                       *)
(* len(key) + 2 quotes + 2 for ": " + len(value); n the number of items;   *)
(* depth the nesting depth of the dict.                                    *)

DictLen(itemsLen, n, indent, depth) ==
    IF n = 0 THEN 2
    ELSE IF indent
         THEN 1 + itemsLen + n * (1 + 2 * (depth + 1)) + (n - 1) + 1 + 2 * depth + 1
         ELSE 2 + itemsLen + 2 * (n - 1)

\* len(key) + 4 + len(value)
Item(keyLen, valueLen) == keyLen + 4 + valueLen

\* repr of the float num / ExpireAfter
FloatLen(num) ==
    IF (10 * num) % ExpireAfter = 0 THEN 3
    ELSE IF (100 * num) % ExpireAfter = 0 THEN 4
    ELSE 18

\* an optional string of the given length: null or "..."
OptStrLen(o) == IF o = None THEN 4 ELSE TheValue(o) + 2

\* Platform names and status values are Python strings
NameLen(p) == 2

StatusLen(s) ==
    CASE s = "exists" -> 6
      [] s = "not_exists" -> 10
      [] s = "error" -> 5
      [] s = "timeout" -> 7
      [] s = "rate_limited" -> 12
      [] OTHER -> 7

\* datetime.isoformat(), quoted
TimestampLen == 26 + 2

\* the metadata dict of a result: {} or {"cached": true, "freshness_score": f}
MetadataLen(r, indent, depth) ==
    IF r.cached
    THEN DictLen(Item(6, 4) + Item(15, FloatLen(TheValue(r.freshness_score))),
                 2, indent, depth)
    ELSE DictLen(0, 0, indent, depth)

\* PhoneCheckResult.to_dict, serialised
ResultLen(r, indent, depth) ==
    DictLen(Item(8, NameLen(r.platform) + 2)
              + Item(6, StatusLen(r.status) + 2)
              + Item(6, IF r.exists THEN 4 ELSE 5)
              + Item(5, OptStrLen(r.error))
              + Item(8, 4)
              + Item(9, 4)
              + Item(16, 3)
              + Item(8, MetadataLen(r, indent, depth + 1))
              + Item(9, TimestampLen)
              + Item(13, 3),
            10, indent, depth)

\* the results dict of an entry, platform -> result: the sequence of its
\* values in dict order (the key of each value is its platform)
ResultsLen(results, indent, depth) ==
    DictLen(SumOver(DOMAIN results,
                    [i \in DOMAIN results |->
                        Item(NameLen(results[i].platform),
                             ResultLen(results[i], indent, depth + 1))]),
            Len(results), indent, depth)

\* a cache entry, serialised
EntryLen(e, indent) ==
    LET base == Item(9, TimestampLen)
                  + Item(7, ResultsLen(e.results, indent, 1))
                  + Item(5, Len(e.phone) + 2)
                  + Item(12, Len(e.country_code) + 2)
    IN  IF e.freshness_score = None
        THEN DictLen(base, 4, indent, 0)
        ELSE DictLen(base + Item(15, FloatLen(TheValue(e.freshness_score))),
                     5, indent, 0)

-----------------------------------------------------------------------------
(* CacheManager (cache.py).  The operations are functions of the cache     *)
(* state c = [cache_data, key_order, disk, stats]; the actions further     *)
(* down apply them to the variables.  rmFail is the set of keys whose file *)
(* the file system refuses to remove during the call; wr is what the file  *)
(* system does with the write of set.                                      *)

WriteOutcomes == {"ok", "open_fails", "write_fails"}

\* content of a file that was opened for writing and not written in full
Corrupt == [corrupt |-> TRUE]

\* CacheManager.__init__
NewStats == [hits |-> 0, misses |-> 0, size_bytes |-> 0, entries_count |-> 0,
             evictions |-> 0]

\* CacheManager._get_cache_key: f"{country_code}_{phone}"
GetCacheKey(phone, country_code) == country_code \o <<"_">> \o phone

\* a freshness score that is the age of the entry, not what is left of its
\* lifetime
ElapsedSeconds(timestamp, t) == t - timestamp

\* CacheManager._calculate_freshness_score, times ExpireAfter
CalculateFreshnessScore(timestamp, t) == Max(0, ExpireAfter - (t - timestamp))

\* a _remove_entry that leaves the file in place
RemoveEntryFromIndex(c, cache_key, rmFail) ==
    IF cache_key \in DOMAIN c.cache_data
    THEN [cache_data |-> Drop(c.cache_data, cache_key),
          key_order  |-> RemoveFromSeq(c.key_order, cache_key),
          disk       |-> c.disk,
          stats      |-> [c.stats EXCEPT
                             !.entries_count = @ - 1,
                             !.size_bytes = @ - EntryLen(c.cache_data[cache_key], FALSE)]]
    ELSE c

\* CacheManager._remove_entry
RemoveEntry(c, cache_key, rmFail) ==
    IF cache_key \in DOMAIN c.cache_data
    THEN LET entry_size == EntryLen(c.cache_data[cache_key], FALSE)
         IN  [cache_data |-> Drop(c.cache_data, cache_key),
              key_order  |-> RemoveFromSeq(c.key_order, cache_key),
              disk       |-> IF cache_key \in DOMAIN c.disk /\ cache_key \notin rmFail
                             THEN Drop(c.disk, cache_key)
                             ELSE c.disk,
              stats      |-> [c.stats EXCEPT
                                 !.entries_count = @ - 1,
                                 !.size_bytes = @ - entry_size]]
    ELSE c

\* list.sort(key=timestamp) of the (timestamp, cache_key) pairs taken in
\* dict order: a stable sort, oldest first
RECURSIVE InsertByAge(_, _, _)
InsertByAge(sorted, k, data) ==
    IF sorted = <<>> THEN <<k>>
    ELSE IF data[sorted[Len(sorted)]].timestamp <= data[k].timestamp
         THEN Append(sorted, k)
         ELSE Append(InsertByAge(SubSeq(sorted, 1, Len(sorted) - 1), k, data),
                     sorted[Len(sorted)])

\* the entries in dict order, the sort left out
EntriesInDictOrder(order, data) == order

RECURSIVE EntriesByAge(_, _)
EntriesByAge(order, data) ==
    IF order = <<>> THEN <<>>
    ELSE InsertByAge(EntriesByAge(SubSeq(order, 1, Len(order) - 1), data),
                     order[Len(order)], data)

\* the loop condition of _evict_old_entries:
\* size_bytes <= max_size_mb * 1024 * 1024 * 0.8
AtTargetSize(size_bytes) == 5 * size_bytes <= 4 * MaxSizeBytes

\* the loop of _evict_old_entries without the line that counts the eviction
RECURSIVE EvictLoopUncounted(_, _, _, _)
EvictLoopUncounted(c, entries_by_age, i, rmFail) ==
    IF i > Len(entries_by_age) \/ AtTargetSize(c.stats.size_bytes)
    THEN c
    ELSE EvictLoopUncounted(RemoveEntry(c, entries_by_age[i], rmFail),
                            entries_by_age, i + 1, rmFail)

\* the loop of _evict_old_entries over entries_by_age, from position i
RECURSIVE EvictLoop(_, _, _, _)
EvictLoop(c, entries_by_age, i, rmFail) ==
    IF i > Len(entries_by_age) \/ AtTargetSize(c.stats.size_bytes)
    THEN c
    ELSE LET removed == RemoveEntry(c, entries_by_age[i], rmFail)
         IN  EvictLoop([removed EXCEPT !.stats.evictions = @ + 1],
                       entries_by_age, i + 1, rmFail)

\* CacheManager._evict_old_entries
EvictOldEntries(c, rmFail) ==
    IF DOMAIN c.cache_data = {}
    THEN c
    ELSE EvictLoop(c, EntriesByAge(c.key_order, c.cache_data), 1, rmFail)

\* the entry set() builds
NewEntry(phone, country_code, results, t) ==
    [timestamp |-> t, results |-> results, phone |-> phone,
     country_code |-> country_code, freshness_score |-> None]

\* set(), the size check: evicts when the new entry would exceed the budget
EvictIfNeeded(c, data_size, rmFail) ==
    IF c.stats.size_bytes + data_size > MaxSizeBytes
    THEN EvictOldEntries(c, rmFail)
    ELSE c

\* an insertion that counts an entry also when it replaces one
InsertCountingEveryEntry(c, cache_key, entry, data_size) ==
    LET present  == cache_key \in DOMAIN c.cache_data
        old_size == IF present THEN EntryLen(c.cache_data[cache_key], FALSE) ELSE 0
    IN  [c EXCEPT
            !.cache_data = Put(c.cache_data, cache_key, entry),
            !.key_order = IF present THEN @ ELSE Append(@, cache_key),
            !.stats.entries_count = @ + 1,
            !.stats.size_bytes = @ - old_size + data_size]

\* set(), the in-memory insertion
InsertInMemory(c, cache_key, entry, data_size) ==
    LET present  == cache_key \in DOMAIN c.cache_data
        old_size == IF present THEN EntryLen(c.cache_data[cache_key], FALSE) ELSE 0
    IN  [c EXCEPT
            !.cache_data = Put(c.cache_data, cache_key, entry),
            !.key_order = IF present THEN @ ELSE Append(@, cache_key),
            !.stats.entries_count = IF present THEN @ ELSE @ + 1,
            !.stats.size_bytes = @ - old_size + data_size]

\* a set() that keeps the new entry in the index when the write failed
PersistWithoutRollback(c, cache_key, entry, data_size, wr) ==
    [c EXCEPT !.disk = IF wr = "ok" THEN Put(c.disk, cache_key, entry)
                       ELSE IF wr = "write_fails" THEN Put(c.disk, cache_key, Corrupt)
                       ELSE c.disk]

\* set(), the write of the file and the rollback when it fails
Persist(c, cache_key, entry, data_size, wr) ==
    IF wr = "ok"
    THEN [c EXCEPT !.disk = Put(c.disk, cache_key, entry)]
    ELSE [cache_data |-> Drop(c.cache_data, cache_key),
          key_order  |-> RemoveFromSeq(c.key_order, cache_key),
          disk       |-> IF wr = "write_fails"
                         THEN Put(c.disk, cache_key, Corrupt)
                         ELSE c.disk,
          stats      |-> [c.stats EXCEPT
                             !.entries_count = @ - 1,
                             !.size_bytes = @ - data_size]]

\* CacheManager.set
CacheSet(c, phone, country_code, results, t, wr, rmFail) ==
    LET cache_key == GetCacheKey(phone, country_code)
        entry     == NewEntry(phone, country_code, results, t)
        data_size == EntryLen(entry, TRUE)
        c1        == EvictIfNeeded(c, data_size, rmFail)
        c2        == InsertInMemory(c1, cache_key, entry, data_size)
    IN  Persist(c2, cache_key, entry, data_size, wr)

\* what get() returns: None, or the entry
Absent == [found |-> FALSE, entry |-> NewEntry(<<>>, <<>>, <<>>, 0)]

Found(entry) == [found |-> TRUE, entry |-> entry]

\* a hit that also renews the write time of the entry
TouchedHit(entry, freshness, t) ==
    [entry EXCEPT !.freshness_score = Some(freshness), !.timestamp = t]

\* the entry get() returns on a hit: cached_data['freshness_score'] is set
\* on the dict of the index, nothing else of it is written
Hit(entry, freshness, t) == [entry EXCEPT !.freshness_score = Some(freshness)]

\* a get that removes an expired entry without counting the miss
CacheGetUncountedExpiry(c, phone, country_code, t, rmFail) ==
    LET cache_key == GetCacheKey(phone, country_code)
    IN  IF cache_key \notin DOMAIN c.cache_data
        THEN [c |-> [c EXCEPT !.stats.misses = @ + 1], ret |-> Absent]
        ELSE LET freshness ==
                     CalculateFreshnessScore(c.cache_data[cache_key].timestamp, t)
             IN  IF freshness <= 0
                 THEN [c |-> RemoveEntry(c, cache_key, rmFail), ret |-> Absent]
                 ELSE LET hit == [c.cache_data[cache_key]
                                     EXCEPT !.freshness_score = Some(freshness)]
                      IN  [c |-> [c EXCEPT !.stats.hits = @ + 1,
                                           !.cache_data[cache_key] = hit],
                           ret |-> Found(hit)]

\* CacheManager.get: the new cache state and the returned value
CacheGet(c, phone, country_code, t, rmFail) ==
    LET cache_key == GetCacheKey(phone, country_code)
    IN  IF cache_key \notin DOMAIN c.cache_data
        THEN [c |-> [c EXCEPT !.stats.misses = @ + 1], ret |-> Absent]
        ELSE LET freshness ==
                     CalculateFreshnessScore(c.cache_data[cache_key].timestamp, t)
             IN  IF freshness <= 0
                 THEN [c |-> [RemoveEntry(c, cache_key, rmFail)
                                 EXCEPT !.stats.misses = @ + 1],
                       ret |-> Absent]
                 ELSE LET hit == Hit(c.cache_data[cache_key], freshness, t)
                      IN  [c |-> [c EXCEPT !.stats.hits = @ + 1,
                                           !.cache_data[cache_key] = hit],
                           ret |-> Found(hit)]

\* an invalidate that forgets the file
InvalidateIndexOnly(c, phone, country_code, rmFail) ==
    RemoveEntryFromIndex(c, GetCacheKey(phone, country_code), rmFail)

\* CacheManager.invalidate
CacheInvalidate(c, phone, country_code, rmFail) ==
    RemoveEntry(c, GetCacheKey(phone, country_code), rmFail)

\* a clear_all that empties the index and leaves the files
ClearAllKeepingFiles(c, rmFail) ==
    [c EXCEPT !.cache_data = <<>>, !.key_order = <<>>,
              !.stats.entries_count = 0, !.stats.size_bytes = 0]

\* CacheManager.clear_all
CacheClearAll(c, rmFail) ==
    [cache_data |-> <<>>,
     key_order  |-> <<>>,
     disk       |-> [k \in (DOMAIN c.disk) \cap rmFail |-> c.disk[k]],
     stats      |-> [c.stats EXCEPT !.entries_count = 0, !.size_bytes = 0]]

\* A record whose 'timestamp' is not an ISO date keeps the text under
\* timestamp_text instead of a time under timestamp.
HasTimestampField(content) ==
    "timestamp" \in DOMAIN content \/ "timestamp_text" \in DOMAIN content

\* CacheManager._validate_cache_data, after json.loads: the file parses and
\* has the fields timestamp and results
ValidateCacheData(content) ==
    HasTimestampField(content) /\ "results" \in DOMAIN content

\* CacheManager._load_cache on the files of the directory, listed in the
\* given order; every file is charged the length of its text
LoadCache(files, order, rmFail) ==
    LET valid == {k \in DOMAIN files : ValidateCacheData(files[k])}
    IN  [cache_data |-> [k \in valid |-> files[k]],
         key_order  |-> SelectSeq(order, LAMBDA k : k \in valid),
         disk       |-> [k \in valid \cup ((DOMAIN files) \cap rmFail) |-> files[k]],
         stats      |-> [NewStats EXCEPT
                            !.size_bytes =
                                SumOver(valid, [k \in valid |-> EntryLen(files[k], TRUE)]),
                            !.entries_count = Cardinality(valid)]]

\* a _cleanup_expired that removes nothing
CleanupNothing(c, expired_keys, i, rmFail) == c

\* CacheManager._cleanup_expired: the loop over expired_keys, from position i
RECURSIVE CleanupExpired(_, _, _, _)
CleanupExpired(c, expired_keys, i, rmFail) ==
    IF i > Len(expired_keys) THEN c
    ELSE CleanupExpired(RemoveEntry(c, expired_keys[i], rmFail), expired_keys,
                        i + 1, rmFail)

\* CacheManager._cleanup_expired, the first loop: datetime.fromisoformat
\* raises ValueError on a timestamp that is no ISO date
CleanupRaises(c) ==
    \E k \in DOMAIN c.cache_data : "timestamp" \notin DOMAIN c.cache_data[k]

\* CacheManager.initialize; when _cleanup_expired raises, it does so before
\* it removes anything, and the index stays as _load_cache left it
Initialize(files, order, t, rmFail) ==
    LET c == LoadCache(files, order, rmFail)
        expired_keys ==
            SelectSeq(c.key_order,
                      LAMBDA k : t - c.cache_data[k].timestamp > ExpireAfter)
    IN  IF CleanupRaises(c) THEN c
        ELSE CleanupExpired(c, expired_keys, 1, rmFail)

\* CacheManager.get_stats: the hit rate, as the pair (hits, requests)
HitRate(st) == IF st.hits + st.misses > 0
               THEN <<st.hits, st.hits + st.misses>>
               ELSE <<0, 1>>

-----------------------------------------------------------------------------
(* State *)

\* the cache state held by the variables
TheCache == [cache_data |-> cache_data, key_order |-> key_order,
             disk |-> disk, stats |-> stats]

CacheBecomes(c) ==
    /\ cache_data' = c.cache_data
    /\ key_order' = c.key_order
    /\ disk' = c.disk
    /\ stats' = c.stats

\* self.checkers: the platforms that have an adapter, in dict order
Checkers == <<"p1", "p2">>

NoOutcomes == [p \in Range(Checkers) |-> "none"]

NoLast == [op |-> "init", phone |-> <<>>, country_code |-> <<>>,
           platforms |-> <<>>, force_refresh |-> FALSE, results |-> <<>>,
           outcomes |-> NoOutcomes, wr |-> "ok", rmFail |-> {},
           numbers |-> <<>>]

\* before: the write time of the key's entry when the operation began, if
\* the index held one; removed: the keys that left the index during the
\* operation; evicted_keys: those among them that _evict_old_entries removed
NoRet == [found |-> FALSE, entry |-> Absent.entry, raised |-> FALSE,
          request |-> <<>>, results |-> <<>>, cached_results |-> <<>>,
          new_results |-> <<>>,
          successful_checks |-> 0, failed_checks |-> 0,
          before |-> None, removed |-> {},
          evicted_keys |-> {}, size_after_evict |-> 0, waited |-> FALSE,
          health |-> [status |-> "none", components |-> <<>>]]

\* the write time of the entry of cache_key, if the index holds one
WriteTime(c, cache_key) ==
    IF cache_key \in DOMAIN c.cache_data
    THEN Some(c.cache_data[cache_key].timestamp)
    ELSE None

\* no check_multiple_numbers call is in flight
NoBatch == tasks = <<>> /\ gathered = None

\* the coroutines that call the CacheManager concurrently
Callers == {"a", "b"}

\* a coroutine that is in no method of the CacheManager
IdleCaller == [pc |-> "idle", op |-> "none", phone |-> <<>>, country_code |-> <<>>,
               results |-> <<>>]

\* CacheManager.__init__: self._lock = asyncio.Lock(), and nobody has
\* called a method yet
NoContention ==
    /\ lock = None
    /\ callers = [k \in Callers |-> IdleCaller]
    /\ committed = <<>>

\* the coroutines that call RateLimiter.acquire concurrently
Acquirers == {"a", "b"}

\* a coroutine that is not in acquire(); stamp is the age of the "now" it
\* read on entry, sleep_left what remains of its asyncio.sleep
IdleAcquirer == [pc |-> "idle", stamp |-> 0, sleep_left |-> 0, raised |-> FALSE]

\* RateLimiter.__init__, and nobody has called acquire yet
NoLimiterUse ==
    /\ timestamps = <<>>
    /\ lockQueue = <<>>
    /\ acquirers = [c \in Acquirers |-> IdleAcquirer]
    /\ admitted = <<>>

\* Scores are kept in ten-thousandths: 1.0 is Scale
Scale == 10000

\* PlatformReliability(base_score=...), with api_timeouts 0, success_rate
\* 1.0 and no last failure; updates counts the update_platform_reliability
\* calls that wrote the record
PlatformReliability(base_score) ==
    [base_score |-> base_score, api_timeouts |-> 0, success_rate |-> Scale,
     last_failure |-> FALSE, updates |-> 0]

\* ConfidenceScorer.__init__: platform_scores
NewPlatformScores ==
    [p \in {"whatsapp", "telegram", "instagram", "snapchat"} |->
        PlatformReliability(CASE p = "whatsapp" -> 9000
                              [] p = "telegram" -> 8500
                              [] p = "instagram" -> 7500
                              [] p = "snapchat" -> 7000)]

\* a _make_request call that has not begun: attempt is the loop variable,
\* attempts counts the requests issued, waits lists the backoff sleeps,
\* failures the exceptions of the failed attempts, raised the exception
\* that reached the caller, response the status code of the returned
\* response
IdleRequest == [pc |-> "idle", method |-> "none", retry_attempts |-> 0,
                attempt |-> 0, attempts |-> 0, waits |-> <<>>,
                failures |-> <<>>, raised |-> "none", response |-> None]

\* no data object has been constructed and no adapter request made
NoObjects ==
    /\ constructed = <<>>
    /\ response = None
    /\ retry = IdleRequest

\* ConfidenceScorer.__init__, and no score has been asked for
NoScorerUse ==
    /\ platform_scores = NewPlatformScores
    /\ scored = None

\* PhoneChecker.__init__, the part that does not depend on the cache
InitCommon ==
    /\ NoBatch
    /\ NoContention
    /\ NoLimiterUse
    /\ NoScorerUse
    /\ NoObjects
    /\ now = 0
    /\ ostats = [total_checks |-> 0, successful_checks |-> 0, failed_checks |-> 0,
                 cache_hits |-> 0, cache_misses |-> 0]
    /\ call_count = [p \in Range(Checkers) |-> 0]
    /\ last = NoLast
    /\ ret = NoRet
    /\ evicted = 0
    /\ nops = 0
    /\ shared = {}

\* the keys among those given whose entry is still in the index after the
\* step: an entry that leaves the index takes its dicts with it
StillInIndex(keys) == keys \cap DOMAIN cache_data'

\* time passes
Tick ==
    /\ now < MaxTime
    /\ now' = now + 1
    /\ last' = [NoLast EXCEPT !.op = "tick"]
    /\ ret' = NoRet
    /\ UNCHANGED <<cache_data, key_order, disk, stats, use_cache, ostats,
                   call_count, evicted, nops, shared, extraVars>>

-----------------------------------------------------------------------------
(* The CacheManager API, called directly (SpecCache) *)

CachePhones == {<<"6", "1">>, <<"6", "2">>}

\* results dicts given to set(): one result (397 bytes as a file) and two
\* results (705 bytes)
CachePayloads ==
    { <<MkResult("p1", "exists", TRUE, None)>>,
      <<MkResult("p1", "exists", TRUE, None), MkResult("p2", "error", FALSE, Some(20))>> }

Get(phone, country_code, rmFail) ==
    /\ nops < MaxOps
    /\ LET g == CacheGet(TheCache, phone, country_code, now, rmFail)
       IN  /\ CacheBecomes(g.c)
           /\ ret' = [NoRet EXCEPT
                         !.found = g.ret.found, !.entry = g.ret.entry,
                         !.before = WriteTime(TheCache, GetCacheKey(phone, country_code)),
                         !.removed = (DOMAIN cache_data) \ (DOMAIN g.c.cache_data)]
    /\ last' = [NoLast EXCEPT !.op = "get", !.phone = phone,
                              !.country_code = country_code, !.rmFail = rmFail]
    /\ nops' = nops + 1
    /\ shared' = StillInIndex(shared)
    /\ UNCHANGED <<now, use_cache, ostats, call_count, evicted, extraVars>>

Set(phone, country_code, results, wr, rmFail) ==
    /\ nops < MaxOps
    /\ LET data_size == EntryLen(NewEntry(phone, country_code, results, now), TRUE)
           c1 == EvictIfNeeded(TheCache, data_size, rmFail)
           gone == (DOMAIN cache_data) \ (DOMAIN c1.cache_data)
       IN  /\ CacheBecomes(CacheSet(TheCache, phone, country_code, results, now,
                                    wr, rmFail))
           /\ evicted' = evicted + Cardinality(gone)
           /\ ret' = [NoRet EXCEPT
                         !.before = WriteTime(TheCache, GetCacheKey(phone, country_code)),
                         !.removed = gone,
                         !.evicted_keys = gone,
                         !.size_after_evict = c1.stats.size_bytes]
    /\ last' = [NoLast EXCEPT !.op = "set", !.phone = phone,
                              !.country_code = country_code, !.results = results,
                              !.wr = wr, !.rmFail = rmFail]
    /\ nops' = nops + 1
    /\ shared' = StillInIndex(shared \ {GetCacheKey(phone, country_code)})
    /\ UNCHANGED <<now, use_cache, ostats, call_count, extraVars>>

Invalidate(phone, country_code, rmFail) ==
    /\ nops < MaxOps
    /\ CacheBecomes(CacheInvalidate(TheCache, phone, country_code, rmFail))
    /\ last' = [NoLast EXCEPT !.op = "invalidate", !.phone = phone,
                              !.country_code = country_code, !.rmFail = rmFail]
    /\ ret' = [NoRet EXCEPT
                  !.before = WriteTime(TheCache, GetCacheKey(phone, country_code)),
                  !.removed = {GetCacheKey(phone, country_code)} \cap DOMAIN cache_data]
    /\ nops' = nops + 1
    /\ shared' = StillInIndex(shared)
    /\ UNCHANGED <<now, use_cache, ostats, call_count, evicted, extraVars>>

ClearAll(rmFail) ==
    /\ nops < MaxOps
    /\ CacheBecomes(CacheClearAll(TheCache, rmFail))
    /\ last' = [NoLast EXCEPT !.op = "clear_all", !.rmFail = rmFail]
    /\ ret' = [NoRet EXCEPT !.removed = DOMAIN cache_data]
    /\ nops' = nops + 1
    /\ shared' = StillInIndex(shared)
    /\ UNCHANGED <<now, use_cache, ostats, call_count, evicted, extraVars>>

\* CacheManager.__init__ followed by initialize() on an empty directory
InitCache ==
    /\ InitCommon
    /\ use_cache = TRUE
    /\ cache_data = <<>>
    /\ key_order = <<>>
    /\ disk = <<>>
    /\ stats = NewStats

\* the file system performs every write and every removal
NextCache ==
    \/ Tick
    \/ \E phone \in CachePhones, cc \in CountryCodes : Get(phone, cc, {})
    \/ \E phone \in CachePhones, cc \in CountryCodes, results \in CachePayloads :
           Set(phone, cc, results, "ok", {})
    \/ \E phone \in CachePhones, cc \in CountryCodes : Invalidate(phone, cc, {})
    \/ ClearAll({})

SpecCache == InitCache /\ [][NextCache]_vars

-----------------------------------------------------------------------------
(* The CacheManager API on a file system that may refuse a write or a      *)
(* removal (SpecFaults).  No time passes, so nothing expires.              *)

\* the removals of a call all succeed, or all fail
RemovalFaults == {{}, {GetCacheKey(phone, cc) : phone \in CachePhones, cc \in CountryCodes}}

NextFaults ==
    \/ /\ nops < MaxSteps
       /\ \E phone \in CachePhones, cc \in CountryCodes : Get(phone, cc, {})
    \/ /\ nops < MaxSteps
       /\ \E phone \in CachePhones, cc \in CountryCodes, results \in CachePayloads,
             wr \in WriteOutcomes :
              Set(phone, cc, results, wr, {})
    \/ /\ nops < MaxSteps
       /\ \E phone \in CachePhones, cc \in CountryCodes, rmFail \in RemovalFaults :
              Invalidate(phone, cc, rmFail)
    \/ /\ nops < MaxSteps
       /\ \E rmFail \in RemovalFaults : ClearAll(rmFail)

SpecFaults == InitCache /\ [][NextFaults]_vars

-----------------------------------------------------------------------------
(* PhoneChecker (core.py) *)

\* utils.clean_phone_number: re.sub(r'\D', '', phone)
CleanPhoneNumber(phone) == SelectSeq(phone, LAMBDA ch : ch \in Digits)

\* phonenumbers.parse("+" + country_code + digits) followed by
\* is_valid_number: the numbers the library accepts
IsValidNumber(country_code, digits) ==
    /\ country_code = <<"3", "3">>
    /\ digits \in {<<"6", "1">>, <<"6", "2">>}

\* a validation that accepts every string
AcceptEveryPhone(phone, country_code) == TRUE

\* utils.validate_phone_number
ValidatePhoneNumber(phone, country_code) ==
    IsValidNumber(country_code, CleanPhoneNumber(phone))

\* what an adapter's check() does: returns a result of that status, or raises
AdapterOutcomes == {"exists", "timeout", "raise"}

\* lengths of the error messages
ErrUnavailable == 35

ErrAdapter == 22

\* PhoneCheckResult.to_dict and from_dict, on the fields the model keeps; the
\* metadata dict (cached, freshness_score) is passed on as it is
ToDict(r) ==
    [platform |-> r.platform, status |-> r.status, exists |-> r.exists,
     error |-> r.error, cached |-> r.cached, freshness_score |-> r.freshness_score]

FromDict(d) ==
    [MkResult(d.platform, d.status, d.exists, d.error)
        EXCEPT !.cached = d.cached, !.freshness_score = d.freshness_score]

\* check_number: request.platforms
RequestPlatforms(platforms) == IF platforms = <<>> THEN Checkers ELSE platforms

\* the loop without its test "if platform in request.platforms"
UsedWithoutFilter(results, request_platforms) == DOMAIN results

\* check_number, the loop over cached_data['results']: the indices of the
\* cached results that are used
UsedFromCache(results, request_platforms) ==
    {i \in DOMAIN results : results[i].platform \in Range(request_platforms)}

\* a loop over the cached results that tags nothing
Untagged(r, freshness) == r

\* the result tagged as served from the cache
Tagged(r, freshness) == [r EXCEPT !.cached = TRUE, !.freshness_score = freshness]

\* check_number, the loop over cached_data['results']: cached_results
CachedResults(entry, request_platforms) ==
    LET used == UsedFromCache(entry.results, request_platforms)
        RECURSIVE Build(_)
        Build(i) ==
            IF i > Len(entry.results) THEN <<>>
            ELSE IF i \in used
                 THEN <<Tagged(FromDict(entry.results[i]), entry.freshness_score)>>
                        \o Build(i + 1)
                 ELSE Build(i + 1)
    IN  Build(1)

\* the same loop: the entry's results afterwards (from_dict hands the
\* entry's own metadata dict to the result, which the loop then tags)
TagEntry(entry, request_platforms) ==
    [entry EXCEPT !.results =
        [i \in DOMAIN entry.results |->
            IF i \in UsedFromCache(entry.results, request_platforms)
            THEN Tagged(entry.results[i], entry.freshness_score)
            ELSE entry.results[i]]]

\* list.remove: the list without the first occurrence of x
RemoveFirst(s, x) ==
    IF \E i \in DOMAIN s : s[i] = x
    THEN LET i == CHOOSE j \in DOMAIN s :
                      s[j] = x /\ \A h \in 1..(j - 1) : s[h] # x
         IN  SubSeq(s, 1, i - 1) \o SubSeq(s, i + 1, Len(s))
    ELSE s

\* the same loop: platforms_to_check, each cached platform removed once
RECURSIVE PlatformsToCheck(_, _)
PlatformsToCheck(request_platforms, cached_results) ==
    IF cached_results = <<>> THEN request_platforms
    ELSE PlatformsToCheck(RemoveFirst(request_platforms, cached_results[1].platform),
                          Tail(cached_results))

\* _perform_checks.check_with_semaphore for one platform
CheckWithSemaphore(platform, outcomes) ==
    IF platform \notin Range(Checkers)
    THEN MkResult(platform, "error", FALSE, Some(ErrUnavailable))
    ELSE IF outcomes[platform] = "raise"
         THEN MkResult(platform, "error", FALSE, Some(ErrAdapter))
         ELSE MkResult(platform, outcomes[platform], outcomes[platform] = "exists",
                       IF outcomes[platform] \in {"exists", "not_exists"}
                       THEN None ELSE Some(ErrAdapter))

\* a _perform_checks that loses the result of an adapter that raises
PerformChecksLosingRaised(platforms, outcomes) ==
    LET kept == SelectSeq(platforms,
                          LAMBDA p : p \notin Range(Checkers) \/ outcomes[p] # "raise")
    IN  [i \in DOMAIN kept |-> CheckWithSemaphore(kept[i], outcomes)]

\* _perform_checks: one result per platform, in the order of the platforms
PerformChecks(platforms, outcomes) ==
    [i \in DOMAIN platforms |-> CheckWithSemaphore(platforms[i], outcomes)]

\* the adapters _perform_checks invokes
Invoked(platforms) == Range(platforms) \cap Range(Checkers)

\* a check_number that reads the cache whenever it is enabled
ConsultsCacheWhenEnabled(enabled, force_refresh) == enabled

\* check_number: whether the cache is consulted
ConsultsCache(enabled, force_refresh) == enabled /\ ~force_refresh

\* check_number: results_dict, {r.platform: r.to_dict() for r in new_results}
ResultsDict(new_results) == [i \in DOMAIN new_results |-> ToDict(new_results[i])]

\* PhoneCheckResponse.__post_init__
SuccessfulChecks(results) == Cardinality({i \in DOMAIN results : IsSuccessful(results[i])})

FailedChecks(results) == Len(results) - SuccessfulChecks(results)

\* a set() that lets the error of the write reach its caller
WriteErrorEscapes(wr) == wr # "ok"

\* CacheManager.set, as check_number sees it: whether it raises; the error
\* of the write is caught and logged inside set()
SetRaises(wr) == FALSE

\* PhoneChecker.check_number
\* outcomes: what the check() of each invoked adapter does
CheckNumber(phone, country_code, platforms, force_refresh, wr, rmFail) ==
    /\ nops < MaxCalls
    /\ nops' = nops + 1
    /\ IF ~ValidatePhoneNumber(phone, country_code)
       THEN \* raise ValueError
            /\ ret' = [NoRet EXCEPT !.raised = TRUE]
            /\ last' = [NoLast EXCEPT !.op = "check_number", !.phone = phone,
                           !.country_code = country_code, !.platforms = platforms,
                           !.force_refresh = force_refresh, !.wr = wr,
                           !.rmFail = rmFail]
            /\ UNCHANGED <<now, cache_data, key_order, disk, stats, use_cache,
                           ostats, call_count, evicted, shared, extraVars>>
       ELSE LET clean_number == CleanPhoneNumber(phone)
                cache_key == GetCacheKey(clean_number, country_code)
                request == RequestPlatforms(platforms)
                consult == ConsultsCache(use_cache, force_refresh)
                g == IF consult
                     THEN CacheGet(TheCache, clean_number, country_code, now, rmFail)
                     ELSE [c |-> TheCache, ret |-> Absent]
                hit == consult /\ g.ret.found
                cached_results == IF hit THEN CachedResults(g.ret.entry, request)
                                  ELSE <<>>
                c_read == IF hit
                          THEN [g.c EXCEPT !.cache_data[cache_key] =
                                               TagEntry(@, request)]
                          ELSE g.c
                platforms_to_check == PlatformsToCheck(request, cached_results)
                from_cache == platforms_to_check = <<>> /\ cached_results # <<>>
                invoked == IF from_cache THEN {} ELSE Invoked(platforms_to_check)
            IN  \E outcomes \in [invoked -> AdapterOutcomes] :
                LET new_results == IF from_cache THEN <<>>
                                   ELSE PerformChecks(platforms_to_check, outcomes)
                    all_results == cached_results \o new_results
                    writes == ~from_cache /\ use_cache /\ new_results # <<>>
                    results_dict == ResultsDict(new_results)
                    data_size == EntryLen(NewEntry(clean_number, country_code,
                                                   results_dict, now), TRUE)
                    gone == IF writes
                            THEN (DOMAIN c_read.cache_data)
                                   \ (DOMAIN EvictIfNeeded(c_read, data_size,
                                                           rmFail).cache_data)
                            ELSE {}
                IN  /\ CacheBecomes(IF writes
                                    THEN CacheSet(c_read, clean_number, country_code,
                                                  results_dict, now, wr, rmFail)
                                    ELSE c_read)
                    /\ evicted' = evicted + Cardinality(gone)
                    /\ shared' = StillInIndex(IF writes
                                               THEN shared \cup {cache_key}
                                               ELSE shared)
                    /\ call_count' = [p \in Range(Checkers) |->
                                         IF p \in invoked THEN call_count[p] + 1
                                         ELSE call_count[p]]
                    /\ ostats' =
                         [total_checks |->
                              IF from_cache THEN ostats.total_checks
                              ELSE ostats.total_checks + Len(all_results),
                          successful_checks |->
                              IF from_cache THEN ostats.successful_checks
                              ELSE ostats.successful_checks
                                     + SuccessfulChecks(all_results),
                          failed_checks |->
                              IF from_cache THEN ostats.failed_checks
                              ELSE ostats.failed_checks + FailedChecks(all_results),
                          cache_hits |-> ostats.cache_hits + (IF hit THEN 1 ELSE 0),
                          cache_misses |-> ostats.cache_misses
                                             + (IF from_cache THEN 0 ELSE 1)]
                    /\ ret' = [NoRet EXCEPT
                                  !.raised = writes /\ SetRaises(wr),
                                  !.found = hit,
                                  !.entry = IF hit THEN g.ret.entry ELSE Absent.entry,
                                  !.before = WriteTime(TheCache, cache_key),
                                  !.removed = ((DOMAIN cache_data)
                                                 \ (DOMAIN g.c.cache_data)) \cup gone,
                                  !.request = request,
                                  !.results = all_results,
                                  !.cached_results = cached_results,
                                  !.new_results = new_results,
                                  !.successful_checks = SuccessfulChecks(all_results),
                                  !.failed_checks = FailedChecks(all_results),
                                  !.evicted_keys = gone]
                    /\ last' = [NoLast EXCEPT !.op = "check_number", !.phone = phone,
                                   !.country_code = country_code,
                                   !.platforms = platforms,
                                   !.force_refresh = force_refresh,
                                   !.outcomes = [p \in Range(Checkers) |->
                                                    IF p \in invoked THEN outcomes[p]
                                                    ELSE "none"],
                                   !.wr = wr, !.rmFail = rmFail]
                    /\ UNCHANGED <<now, use_cache, extraVars>>

\* PhoneChecker.invalidate_cache
InvalidateCache(phone, country_code, rmFail) ==
    /\ nops < MaxCalls
    /\ nops' = nops + 1
    /\ IF use_cache
       THEN CacheBecomes(CacheInvalidate(TheCache, phone, country_code, rmFail))
       ELSE UNCHANGED cacheVars
    /\ last' = [NoLast EXCEPT !.op = "invalidate_cache", !.phone = phone,
                   !.country_code = country_code, !.rmFail = rmFail]
    /\ ret' = [NoRet EXCEPT
                  !.removed = IF use_cache
                              THEN {GetCacheKey(phone, country_code)}
                                     \cap DOMAIN cache_data
                              ELSE {}]
    /\ shared' = StillInIndex(shared)
    /\ UNCHANGED <<now, use_cache, ostats, call_count, evicted, extraVars>>

\* PhoneChecker.clear_cache
ClearCache(rmFail) ==
    /\ nops < MaxCalls
    /\ nops' = nops + 1
    /\ IF use_cache
       THEN CacheBecomes(CacheClearAll(TheCache, rmFail))
       ELSE UNCHANGED cacheVars
    /\ last' = [NoLast EXCEPT !.op = "clear_cache", !.rmFail = rmFail]
    /\ ret' = [NoRet EXCEPT !.removed = IF use_cache THEN DOMAIN cache_data ELSE {}]
    /\ shared' = StillInIndex(shared)
    /\ UNCHANGED <<now, use_cache, ostats, call_count, evicted, extraVars>>

\* PhoneChecker._test_platform_health for an adapter whose check() does
\* the given thing: the component entry it returns; it catches Exception,
\* so it returns an entry in every case
TestPlatformHealth(outcome) ==
    [raised |-> FALSE,
     status |-> IF outcome = "raise" THEN "unhealthy"
                ELSE IF outcome \in {"exists", "not_exists"} THEN "healthy"
                ELSE "degraded"]

\* PhoneChecker.health_check: the components dict, component -> status
HealthComponents(test_results, enabled) ==
    [k \in Range(Checkers) \cup (IF enabled THEN {"cache"} ELSE {}) |->
        IF k \in Range(Checkers)
        THEN IF test_results[k].raised THEN "unhealthy" ELSE test_results[k].status
        ELSE "healthy"]

\* PhoneChecker.health_check: the overall status; it is lowered where
\* gather handed back an exception instead of an entry
HealthStatus(test_results) ==
    IF \E p \in Range(Checkers) : test_results[p].raised
    THEN "degraded" ELSE "healthy"

\* PhoneChecker.health_check
\* outcomes: what the check() of each adapter does with the probe number
HealthCheck(outcomes) ==
    /\ nops < MaxCalls
    /\ nops' = nops + 1
    /\ LET test_results == [p \in Range(Checkers) |-> TestPlatformHealth(outcomes[p])]
       IN  ret' = [NoRet EXCEPT
                     !.health = [status |-> HealthStatus(test_results),
                                 components |-> HealthComponents(test_results,
                                                                 use_cache)]]
    /\ IF use_cache
       THEN CacheBecomes(CacheGet(TheCache, <<"t", "e", "s", "t">>, <<"1">>, now, {}).c)
       ELSE UNCHANGED cacheVars
    /\ call_count' = [p \in Range(Checkers) |-> call_count[p] + 1]
    /\ last' = [NoLast EXCEPT !.op = "health_check", !.outcomes = outcomes]
    /\ shared' = StillInIndex(shared)
    /\ UNCHANGED <<now, use_cache, ostats, evicted, extraVars>>

\* the phone arguments of check_number: a valid number written with a dash,
\* and a string that is no number
Phones == {<<"6", "-", "1">>, <<"x">>}

\* the phone arguments of invalidate_cache: the number with and without
\* its dash
InvalidatePhones == {<<"6", "1">>, <<"6", "-", "1">>}

\* the platforms arguments: None (every adapter), and a list of one adapter
\* and a platform that has no adapter
PlatformLists == {<<>>, <<"p1", "px">>}

\* what an earlier run of the program left in the cache directory: nothing,
\* or the file check_number wrote for +33 61 and the platforms p1 and px
\* after p1 answered "exists"
CacheDirs ==
    LET phone == <<"6", "1">>
        cc == <<"3", "3">>
        written == NewEntry(phone, cc,
                            ResultsDict(PerformChecks(<<"p1", "px">>,
                                                      [p \in {"p1"} |-> "exists"])),
                            0)
    IN  { <<>>, Put(<<>>, GetCacheKey(phone, cc), written) }

\* the orders in which glob can list the files
DirOrders(files) ==
    {order \in [1..Cardinality(DOMAIN files) -> DOMAIN files] :
        Range(order) = DOMAIN files}

\* PhoneChecker.__init__ followed by initialize(): with the cache enabled
\* the CacheManager loads the directory; with the cache disabled there is
\* no CacheManager and no directory is read
Init ==
    /\ InitCommon
    /\ use_cache \in BOOLEAN
    /\ IF use_cache
       THEN \E files \in CacheDirs : \E order \in DirOrders(files) :
                /\ cache_data = Initialize(files, order, 0, {}).cache_data
                /\ key_order = Initialize(files, order, 0, {}).key_order
                /\ disk = Initialize(files, order, 0, {}).disk
                /\ stats = Initialize(files, order, 0, {}).stats
       ELSE /\ cache_data = <<>>
            /\ key_order = <<>>
            /\ disk = <<>>
            /\ stats = NewStats

\* The freshly fetched results of the response that shares its metadata
\* dicts with the entry of cache_key, as the holder of the response sees
\* them now: to_dict puts result.metadata itself into the dict that set()
\* stores, so the tags of the entry are the tags of those results.
FreshResultsOf(cache_key) == cache_data[cache_key].results

\* the file system performs every write and every removal
Next ==
    \/ Tick
    \/ \E phone \in Phones, cc \in CountryCodes, platforms \in PlatformLists,
          force_refresh \in BOOLEAN :
           CheckNumber(phone, cc, platforms, force_refresh, "ok", {})
    \/ \E phone \in InvalidatePhones, cc \in CountryCodes :
           InvalidateCache(phone, cc, {})
    \/ ClearCache({})

Spec == Init /\ [][Next]_vars

-----------------------------------------------------------------------------
(* A CacheManager is constructed on a directory an earlier run left, and   *)
(* later replaced by a new one on the same directory (SpecRestart)         *)

\* a file that parses and has no 'results'
MissingField == [timestamp |-> 0, phone |-> <<"6", "2">>, country_code |-> <<"3", "3">>]

\* a file with every field, whose 'timestamp' is no ISO date
MalformedTimestamp ==
    [timestamp_text |-> "yesterday",
     results |-> <<MkResult("p1", "exists", TRUE, None)>>,
     phone |-> <<"6", "2">>, country_code |-> <<"3", "3">>,
     freshness_score |-> None]

\* what the earlier run left: nothing; or the record set() wrote at time 0
\* for +33 61, alone or next to a second file for +33 62 that is such a
\* record too, or cut short, or lacks a field, or has a bad timestamp
RestartDirs ==
    LET cc == <<"3", "3">>
        k1 == GetCacheKey(<<"6", "1">>, cc)
        k2 == GetCacheKey(<<"6", "2">>, cc)
        first == NewEntry(<<"6", "1">>, cc, <<MkResult("p1", "exists", TRUE, None)>>, 0)
        second == NewEntry(<<"6", "2">>, cc, <<MkResult("p1", "timeout", FALSE, Some(ErrAdapter))>>, 0)
    IN  { <<>>, Put(<<>>, k1, first) }
          \cup { Put(Put(<<>>, k1, first), k2, other) :
                     other \in {second, Corrupt, MissingField, MalformedTimestamp} }

\* no entry of the index has a timestamp that fromisoformat rejects; get,
\* set and _cleanup_expired raise on such an entry, and the runs of
\* SpecRestart do not go on with such an index other than by a restart
Usable == ~CleanupRaises(TheCache)

\* CacheManager.__init__ on the directory; the program starts when the
\* directory was written, or when its records are older than expire_after
InitRestart ==
    /\ NoBatch
    /\ NoContention
    /\ NoLimiterUse
    /\ NoScorerUse
    /\ NoObjects
    /\ now \in {0, ExpireAfter + 1}
    /\ ostats = [total_checks |-> 0, successful_checks |-> 0, failed_checks |-> 0,
                 cache_hits |-> 0, cache_misses |-> 0]
    /\ call_count = [p \in Range(Checkers) |-> 0]
    /\ last = NoLast
    /\ ret = NoRet
    /\ evicted = 0
    /\ nops = 0
    /\ shared = {}
    /\ use_cache = TRUE
    /\ cache_data = <<>>
    /\ key_order = <<>>
    /\ stats = NewStats
    /\ disk \in RestartDirs

\* a new CacheManager on the directory: __init__, then initialize()
Restart(order, rmFail) ==
    /\ nops < MaxSteps
    /\ CacheBecomes(Initialize(disk, order, now, rmFail))
    /\ last' = [NoLast EXCEPT !.op = "initialize", !.rmFail = rmFail]
    /\ ret' = [NoRet EXCEPT
                  !.raised = CleanupRaises(LoadCache(disk, order, rmFail)),
                  !.removed = (DOMAIN disk) \ (DOMAIN disk')]
    /\ nops' = nops + 1
    /\ shared' = {}
    /\ UNCHANGED <<now, use_cache, ostats, call_count, evicted, extraVars>>

\* the first operation is initialize(); the file system performs every
\* write and every removal
NextRestart ==
    \/ /\ last.op # "init"
       /\ Tick
    \/ /\ last.op # "init" /\ Usable /\ nops < MaxSteps
       /\ \E phone \in CachePhones, cc \in CountryCodes : Get(phone, cc, {})
    \/ /\ last.op # "init" /\ Usable /\ nops < MaxSteps
       /\ \E phone \in CachePhones, cc \in CountryCodes, results \in CachePayloads :
              Set(phone, cc, results, "ok", {})
    \/ \E order \in DirOrders(disk) : Restart(order, {})

SpecRestart == InitRestart /\ [][NextRestart]_vars

-----------------------------------------------------------------------------
(* A PhoneChecker that is probed with health_check between checks          *)
(* (SpecHealth)                                                            *)

NextHealth ==
    \/ Tick
    \/ \E outcomes \in [Range(Checkers) -> AdapterOutcomes] : HealthCheck(outcomes)
    \/ \E cc \in CountryCodes, platforms \in PlatformLists :
           CheckNumber(<<"6", "-", "1">>, cc, platforms, FALSE, "ok", {})

SpecHealth == Init /\ [][NextHealth]_vars

-----------------------------------------------------------------------------
(* A PhoneChecker with the cache enabled, on a file system that may refuse *)
(* the write of the write-back step (SpecWriteBack)                        *)

InitWriteBack == Init /\ use_cache

NextWriteBack ==
    \E cc \in CountryCodes, platforms \in PlatformLists, wr \in WriteOutcomes :
        CheckNumber(<<"6", "-", "1">>, cc, platforms, FALSE, wr, {})

SpecWriteBack == InitWriteBack /\ [][NextWriteBack]_vars

-----------------------------------------------------------------------------
(* check_multiple_numbers: concurrent check_number coroutines (SpecBatch) *)

\* the numbers arguments of check_multiple_numbers: lists of valid numbers
\* and of strings that are no number
BatchNumbers ==
    LET valid1 == [phone |-> <<"6", "-", "1">>, country_code |-> <<"3", "3">>]
        valid2 == [phone |-> <<"6", "2">>, country_code |-> <<"3", "3">>]
        invalid == [phone |-> <<"x">>, country_code |-> <<"3", "3">>]
    IN  { <<valid1, valid2>>, <<valid1, invalid>>, <<invalid, valid1>>, <<invalid>> }

\* a semaphore that admits one caller more than there are platforms
WideSemaphore == MaxConcurrentChecks + Len(Checkers) + 1

\* _perform_checks: asyncio.Semaphore(self.max_concurrent_checks), the
\* value of the semaphore each call creates
NewSemaphore == MaxConcurrentChecks

\* a semaphore that is not released when the adapter call raises
ReleaseUnlessRaised(semaphore, outcome) ==
    IF outcome = "raise" THEN semaphore ELSE semaphore + 1

\* the end of "async with semaphore": the slot is released, when check()
\* returns and when it raises (the exception is caught inside the block)
Release(semaphore, outcome) == semaphore + 1

\* a gather that lets the first exception of a coroutine reach its caller
GatherFirstException(outcomes) ==
    IF \E i \in DOMAIN outcomes : outcomes[i].raised
    THEN [raised |-> TRUE, value |-> <<>>]
    ELSE [raised |-> FALSE, value |-> outcomes]

\* asyncio.gather(*tasks, return_exceptions=True): the outcomes in the order
\* of the coroutines, an exception as the value of its slot
Gather(outcomes) == [raised |-> FALSE, value |-> outcomes]

\* a coroutine check_multiple_numbers creates, before it runs
NewTask(number_info) ==
    [phone |-> number_info.phone, country_code |-> number_info.country_code,
     pc |-> "created", semaphore |-> 0, checks |-> <<>>,
     raised |-> FALSE, results |-> <<>>]

\* the adapter calls of task i that are in flight
InFlight(task) == {j \in DOMAIN task.checks : task.checks[j].pc = "in_flight"}

\* what the batch leaves alone: the PhoneChecker has no cache
batchFrame == <<now, cache_data, key_order, disk, stats, use_cache, evicted, shared,
                ret, lockVars, limiterVars, scorerVars, modelsVars, retryVars>>

\* PhoneChecker.check_multiple_numbers up to its await: one check_number
\* coroutine per number, handed to gather
CheckMultipleNumbers(numbers, platforms) ==
    /\ nops < MaxCalls
    /\ \A i \in DOMAIN tasks : tasks[i].pc = "gathered"
    /\ nops' = nops + 1
    /\ tasks' = [i \in DOMAIN numbers |-> NewTask(numbers[i])]
    /\ gathered' = None
    /\ last' = [NoLast EXCEPT !.op = "check_multiple_numbers",
                              !.numbers = numbers, !.platforms = platforms]
    /\ UNCHANGED <<batchFrame, ostats, call_count>>

\* check_number from its first line to the await of gather in
\* _perform_checks: the validation, the request, the cache_misses counter,
\* the semaphore and one check_with_semaphore coroutine per platform
BeginCheckNumber(i) ==
    /\ i \in DOMAIN tasks
    /\ tasks[i].pc = "created"
    /\ IF ~ValidatePhoneNumber(tasks[i].phone, tasks[i].country_code)
       THEN /\ tasks' = [tasks EXCEPT ![i].pc = "done", ![i].raised = TRUE]
            /\ UNCHANGED ostats
       ELSE LET request == RequestPlatforms(last.platforms)
            IN  /\ tasks' = [tasks EXCEPT
                                ![i].pc = "checking",
                                ![i].semaphore = NewSemaphore,
                                ![i].checks =
                                    [j \in DOMAIN request |->
                                        [platform |-> request[j], pc |-> "waiting",
                                         outcome |-> "none",
                                         result |-> MkResult(request[j], "error",
                                                             FALSE, None)]]]
                /\ ostats' = [ostats EXCEPT !.cache_misses = @ + 1]
    /\ UNCHANGED <<batchFrame, call_count, last, nops, gathered>>

\* check_with_semaphore from "async with semaphore" to its first await: the
\* semaphore is acquired; a platform without adapter gets its error result
\* and the semaphore is released, an adapter's check() is called
AcquireSemaphore(i, j) ==
    /\ i \in DOMAIN tasks
    /\ tasks[i].pc = "checking"
    /\ j \in DOMAIN tasks[i].checks
    /\ tasks[i].checks[j].pc = "waiting"
    /\ tasks[i].semaphore > 0
    /\ LET platform == tasks[i].checks[j].platform
       IN  IF platform \notin Range(Checkers)
           THEN /\ tasks' = [tasks EXCEPT
                                ![i].checks[j].pc = "done",
                                ![i].checks[j].result =
                                    CheckWithSemaphore(platform, NoOutcomes)]
                /\ UNCHANGED call_count
           ELSE /\ tasks' = [tasks EXCEPT ![i].checks[j].pc = "in_flight",
                                          ![i].semaphore = @ - 1]
                /\ call_count' = [call_count EXCEPT ![platform] = @ + 1]
    /\ UNCHANGED <<batchFrame, ostats, last, nops, gathered>>

\* the adapter's check() returns or raises: check_with_semaphore returns
\* the result and releases the semaphore
AdapterReturns(i, j, outcome) ==
    /\ i \in DOMAIN tasks
    /\ j \in DOMAIN tasks[i].checks
    /\ tasks[i].checks[j].pc = "in_flight"
    /\ LET platform == tasks[i].checks[j].platform
       IN  tasks' = [tasks EXCEPT
                        ![i].checks[j].pc = "done",
                        ![i].checks[j].outcome = outcome,
                        ![i].checks[j].result =
                            CheckWithSemaphore(platform,
                                               [p \in {platform} |-> outcome]),
                        ![i].semaphore = Release(@, outcome)]
    /\ UNCHANGED <<batchFrame, ostats, call_count, last, nops, gathered>>

\* check_number from the return of gather in _perform_checks to its own
\* return: the response and the statistics (the PhoneChecker has no cache)
EndCheckNumber(i) ==
    /\ i \in DOMAIN tasks
    /\ tasks[i].pc = "checking"
    /\ \A j \in DOMAIN tasks[i].checks : tasks[i].checks[j].pc = "done"
    /\ LET all_results == [j \in DOMAIN tasks[i].checks |->
                               tasks[i].checks[j].result]
       IN  /\ tasks' = [tasks EXCEPT ![i].pc = "done", ![i].results = all_results]
           /\ ostats' = [ostats EXCEPT
                            !.total_checks = @ + Len(all_results),
                            !.successful_checks = @ + SuccessfulChecks(all_results),
                            !.failed_checks = @ + FailedChecks(all_results)]
    /\ UNCHANGED <<batchFrame, call_count, last, nops, gathered>>

\* check_multiple_numbers returns what gather returns, once every
\* coroutine has returned or raised
GatherReturns ==
    /\ gathered = None
    /\ last.op = "check_multiple_numbers"
    /\ \A i \in DOMAIN tasks : tasks[i].pc = "done"
    /\ gathered' = Some(Gather([i \in DOMAIN tasks |->
                                   [raised |-> tasks[i].raised,
                                    phone |-> tasks[i].phone,
                                    results |-> tasks[i].results]]))
    /\ tasks' = [i \in DOMAIN tasks |-> [tasks[i] EXCEPT !.pc = "gathered"]]
    /\ UNCHANGED <<batchFrame, ostats, call_count, last, nops>>

\* PhoneChecker(use_cache=False, max_concurrent_checks=MaxConcurrentChecks)
InitBatch ==
    /\ InitCommon
    /\ use_cache = FALSE
    /\ cache_data = <<>>
    /\ key_order = <<>>
    /\ disk = <<>>
    /\ stats = NewStats

\* the event loop runs the coroutines in any order
NextBatch ==
    \/ \E numbers \in BatchNumbers, platforms \in PlatformLists :
           CheckMultipleNumbers(numbers, platforms)
    \/ \E i \in DOMAIN tasks : BeginCheckNumber(i)
    \/ \E i \in DOMAIN tasks : \E j \in DOMAIN tasks[i].checks :
           AcquireSemaphore(i, j)
    \/ \E i \in DOMAIN tasks : \E j \in DOMAIN tasks[i].checks :
           \E outcome \in AdapterOutcomes : AdapterReturns(i, j, outcome)
    \/ \E i \in DOMAIN tasks : EndCheckNumber(i)
    \/ GatherReturns

SpecBatch == InitBatch /\ [][NextBatch]_vars

\* the positions of the coroutines in a batch, and of the adapter calls in
\* a request
TaskIds == 1..2

CheckIds == 1..2

\* every adapter call eventually returns or raises, and the event loop runs
\* every coroutine that is ready
SpecBatchLive ==
    /\ SpecBatch
    /\ \A i \in TaskIds :
          /\ WF_vars(BeginCheckNumber(i))
          /\ WF_vars(EndCheckNumber(i))
          /\ \A j \in CheckIds :
                /\ WF_vars(AcquireSemaphore(i, j))
                /\ WF_vars(\E outcome \in AdapterOutcomes : AdapterReturns(i, j, outcome))

-----------------------------------------------------------------------------
(* The CacheManager API called by concurrent coroutines (SpecLock).  Each   *)
(* method runs inside "async with self._lock"; a coroutine that awaits the  *)
(* file system inside the method lets the other coroutines run.  No time    *)
(* passes, so nothing expires.                                              *)

\* a lock that admits a coroutine while another one holds it
AlwaysAcquirable(l) == TRUE

\* asyncio.Lock: a coroutine enters "async with self._lock" when nobody
\* holds the lock
Acquirable(l) == l = None

\* what the concurrent callers leave alone
lockFrame == <<now, use_cache, ostats, call_count, shared, batchVars, limiterVars,
               scorerVars, modelsVars, retryVars>>

\* the coroutines inside "async with self._lock"
InCriticalSection == {k \in Callers : callers[k].pc = "inside"}

\* an entry without the freshness score that get() writes into it
Unscored(entry) == [entry EXCEPT !.freshness_score = None]

\* get() is called while another coroutine holds the lock: the caller waits
GetBlocks(k, phone, country_code) ==
    /\ nops < MaxSteps
    /\ callers[k].pc = "idle"
    /\ ~Acquirable(lock)
    /\ callers' = [callers EXCEPT ![k] = [IdleCaller EXCEPT
                      !.pc = "waiting", !.op = "get", !.phone = phone,
                      !.country_code = country_code]]
    /\ nops' = nops + 1
    /\ last' = [NoLast EXCEPT !.op = "call"]
    /\ ret' = NoRet
    /\ UNCHANGED <<cacheVars, evicted, lock, committed, lockFrame>>

\* CacheManager.get of an entry that has not expired: nothing is awaited
\* inside the lock, so the method runs from acquire to release in one step
\* of the event loop, at once or after the wait for the lock
LockedGet(k, phone, country_code) ==
    /\ \/ callers[k].pc = "idle" /\ nops < MaxSteps /\ nops' = nops + 1
       \/ /\ callers[k] = [IdleCaller EXCEPT !.pc = "waiting", !.op = "get",
                              !.phone = phone, !.country_code = country_code]
          /\ nops' = nops
    /\ Acquirable(lock)
    /\ LET g == CacheGet(TheCache, phone, country_code, now, {})
       IN  /\ CacheBecomes(g.c)
           /\ ret' = [NoRet EXCEPT !.found = g.ret.found, !.entry = g.ret.entry,
                                   !.waited = callers[k].pc = "waiting"]
    /\ callers' = [callers EXCEPT ![k] = IdleCaller]
    /\ last' = [NoLast EXCEPT !.op = "get", !.phone = phone,
                              !.country_code = country_code]
    /\ UNCHANGED <<evicted, lock, committed, lockFrame>>

\* CacheManager.set from the acquire to the await of the file write: the
\* eviction and the insertion into the index
SetEnter(k, phone, country_code, results) ==
    /\ nops < MaxSteps
    /\ callers[k].pc = "idle"
    /\ Acquirable(lock)
    /\ LET cache_key == GetCacheKey(phone, country_code)
           entry == NewEntry(phone, country_code, results, now)
           data_size == EntryLen(entry, TRUE)
           c1 == EvictIfNeeded(TheCache, data_size, {})
       IN  /\ CacheBecomes(InsertInMemory(c1, cache_key, entry, data_size))
           /\ evicted' = evicted + Cardinality((DOMAIN cache_data)
                                                 \ (DOMAIN c1.cache_data))
    /\ lock' = Some(k)
    /\ callers' = [callers EXCEPT ![k] = [pc |-> "inside", op |-> "set",
                      phone |-> phone, country_code |-> country_code,
                      results |-> results]]
    /\ nops' = nops + 1
    /\ last' = [NoLast EXCEPT !.op = "enter"]
    /\ ret' = NoRet
    /\ UNCHANGED <<committed, lockFrame>>

\* CacheManager.set from the file write to the release: the write succeeds,
\* or it fails and the insertion is rolled back
SetExit(k, wr) ==
    /\ callers[k].pc = "inside"
    /\ callers[k].op = "set"
    /\ LET cache_key == GetCacheKey(callers[k].phone, callers[k].country_code)
           entry == NewEntry(callers[k].phone, callers[k].country_code,
                             callers[k].results, now)
       IN  CacheBecomes(Persist(TheCache, cache_key, entry,
                                EntryLen(entry, TRUE), wr))
    /\ lock' = None
    /\ committed' = cache_data'
    /\ callers' = [callers EXCEPT ![k] = IdleCaller]
    /\ last' = [NoLast EXCEPT !.op = "set", !.phone = callers[k].phone,
                              !.country_code = callers[k].country_code,
                              !.results = callers[k].results, !.wr = wr]
    /\ ret' = NoRet
    /\ UNCHANGED <<evicted, nops, lockFrame>>

\* CacheManager.invalidate from the acquire to the await of the file
\* removal; without an entry or without a file nothing is awaited and the
\* method runs to its release
InvalidateEnter(k, phone, country_code) ==
    /\ nops < MaxSteps
    /\ callers[k].pc = "idle"
    /\ Acquirable(lock)
    /\ LET cache_key == GetCacheKey(phone, country_code)
           awaits == cache_key \in DOMAIN cache_data /\ cache_key \in DOMAIN disk
       IN  /\ CacheBecomes(RemoveEntryFromIndex(TheCache, cache_key, {}))
           /\ IF awaits
              THEN /\ lock' = Some(k)
                   /\ callers' = [callers EXCEPT ![k] = [IdleCaller EXCEPT
                                     !.pc = "inside", !.op = "invalidate",
                                     !.phone = phone,
                                     !.country_code = country_code]]
                   /\ last' = [NoLast EXCEPT !.op = "enter"]
                   /\ UNCHANGED committed
              ELSE /\ committed' = cache_data'
                   /\ last' = [NoLast EXCEPT !.op = "invalidate", !.phone = phone,
                                             !.country_code = country_code]
                   /\ UNCHANGED <<lock, callers>>
    /\ nops' = nops + 1
    /\ ret' = NoRet
    /\ UNCHANGED <<evicted, lockFrame>>

\* CacheManager.invalidate from the file removal to the release
InvalidateExit(k) ==
    /\ callers[k].pc = "inside"
    /\ callers[k].op = "invalidate"
    /\ CacheBecomes([TheCache EXCEPT !.disk =
                        Drop(@, GetCacheKey(callers[k].phone,
                                            callers[k].country_code))])
    /\ lock' = None
    /\ committed' = cache_data'
    /\ callers' = [callers EXCEPT ![k] = IdleCaller]
    /\ last' = [NoLast EXCEPT !.op = "invalidate", !.phone = callers[k].phone,
                              !.country_code = callers[k].country_code]
    /\ ret' = NoRet
    /\ UNCHANGED <<evicted, nops, lockFrame>>

\* CacheManager.clear_all from the acquire to the await of the first file
\* removal; in an empty directory nothing is awaited and the method runs to
\* its release
ClearAllEnter(k) ==
    /\ nops < MaxSteps
    /\ callers[k].pc = "idle"
    /\ Acquirable(lock)
    /\ IF disk # <<>>
       THEN /\ lock' = Some(k)
            /\ callers' = [callers EXCEPT ![k] = [IdleCaller EXCEPT
                              !.pc = "inside", !.op = "clear_all"]]
            /\ last' = [NoLast EXCEPT !.op = "enter"]
            /\ UNCHANGED <<cacheVars, committed>>
       ELSE /\ CacheBecomes(CacheClearAll(TheCache, {}))
            /\ committed' = cache_data'
            /\ last' = [NoLast EXCEPT !.op = "clear_all"]
            /\ UNCHANGED <<lock, callers>>
    /\ nops' = nops + 1
    /\ ret' = NoRet
    /\ UNCHANGED <<evicted, lockFrame>>

\* CacheManager.clear_all from the file removals to the release
ClearAllExit(k) ==
    /\ callers[k].pc = "inside"
    /\ callers[k].op = "clear_all"
    /\ CacheBecomes(CacheClearAll(TheCache, {}))
    /\ lock' = None
    /\ committed' = cache_data'
    /\ callers' = [callers EXCEPT ![k] = IdleCaller]
    /\ last' = [NoLast EXCEPT !.op = "clear_all"]
    /\ ret' = NoRet
    /\ UNCHANGED <<evicted, nops, lockFrame>>

\* the event loop runs the coroutines in any order; a write may fail
NextLock ==
    \E k \in Callers :
        \/ \E phone \in CachePhones, cc \in CountryCodes : GetBlocks(k, phone, cc)
        \/ \E phone \in CachePhones, cc \in CountryCodes : LockedGet(k, phone, cc)
        \/ \E phone \in CachePhones, cc \in CountryCodes, results \in CachePayloads :
               SetEnter(k, phone, cc, results)
        \/ \E wr \in WriteOutcomes : SetExit(k, wr)
        \/ \E phone \in CachePhones, cc \in CountryCodes : InvalidateEnter(k, phone, cc)
        \/ InvalidateExit(k)
        \/ ClearAllEnter(k)
        \/ ClearAllExit(k)

SpecLock == InitCache /\ [][NextLock]_vars

-----------------------------------------------------------------------------
(* RateLimiter.acquire called by concurrent coroutines (SpecLimiter).  Time *)
(* is kept relative: every instant is stored as its age, and an age that    *)
(* has reached the period is kept as the period.                            *)

Min(a, b) == IF a <= b THEN a ELSE b

\* a sleep that never ends
NeverOver(sleep_left) == FALSE

\* asyncio.sleep(sleep_time) returns once sleep_time seconds have passed
SleepOver(sleep_left) == sleep_left = 0

\* acquire: self.timestamps.append(now), the "now" read on entry
AppendedStamp(stamp) == stamp

\* acquire: [ts for ts in self.timestamps if ts > cutoff]
Recent(stamps) == SelectSeq(stamps, LAMBDA age : age < Period)

\* the latest Calls + 1 moments of return that are less than a period old
Admit(moments) ==
    LET all == Append(moments, 0)
    IN  IF Len(all) > Calls + 1 THEN Tail(all) ELSE all

\* what the rate limiter leaves alone
limiterFrame == <<now, cacheVars, use_cache, ostats, call_count, last, ret,
                  evicted, nops, shared, batchVars, lockVars, scorerVars,
                  modelsVars, retryVars>>

\* a coroutine calls acquire: "async with self._lock" takes the lock at
\* once when it is free and nobody waits, and queues behind the waiters
\* otherwise
CallAcquire(c) ==
    /\ acquirers[c].pc = "idle"
    /\ acquirers' = [acquirers EXCEPT ![c] = [IdleAcquirer EXCEPT !.pc = "queued"]]
    /\ lockQueue' = Append(lockQueue, c)
    /\ UNCHANGED <<timestamps, admitted, limiterFrame>>

\* acquire from the lock to its await of asyncio.sleep, or to its return
\* when it does not sleep
EnterAcquire(c) ==
    /\ lockQueue # <<>>
    /\ Head(lockQueue) = c
    /\ acquirers[c].pc = "queued"
    /\ LET recent == Recent(timestamps)
       IN  IF Len(recent) >= Calls
           THEN IF recent = <<>>
                THEN \* self.timestamps[0] raises IndexError
                     /\ timestamps' = recent
                     /\ acquirers' = [acquirers EXCEPT ![c] =
                                         [IdleAcquirer EXCEPT !.raised = TRUE]]
                     /\ lockQueue' = Tail(lockQueue)
                     /\ UNCHANGED admitted
                ELSE \* sleep_time = oldest + period - now, which is positive
                     /\ timestamps' = recent
                     /\ acquirers' = [acquirers EXCEPT ![c] =
                                         [IdleAcquirer EXCEPT
                                             !.pc = "sleeping",
                                             !.sleep_left = Period - recent[1]]]
                     /\ UNCHANGED <<lockQueue, admitted>>
           ELSE /\ timestamps' = Append(recent, AppendedStamp(0))
                /\ acquirers' = [acquirers EXCEPT ![c] = IdleAcquirer]
                /\ lockQueue' = Tail(lockQueue)
                /\ admitted' = Admit(admitted)
    /\ UNCHANGED limiterFrame

\* acquire from the return of asyncio.sleep to its own return
WakeUp(c) ==
    /\ acquirers[c].pc = "sleeping"
    /\ SleepOver(acquirers[c].sleep_left)
    /\ timestamps' = Append(Tail(timestamps), AppendedStamp(acquirers[c].stamp))
    /\ acquirers' = [acquirers EXCEPT ![c] = IdleAcquirer]
    /\ lockQueue' = Tail(lockQueue)
    /\ admitted' = Admit(admitted)
    /\ UNCHANGED limiterFrame

\* one second passes
LimiterTick ==
    /\ timestamps' = [i \in DOMAIN timestamps |-> Min(timestamps[i] + 1, Period)]
    /\ acquirers' = [c \in Acquirers |->
                        IF acquirers[c].pc = "sleeping"
                        THEN [acquirers[c] EXCEPT
                                 !.stamp = Min(@ + 1, Period),
                                 !.sleep_left = Max(@ - 1, 0)]
                        ELSE acquirers[c]]
    /\ admitted' = SelectSeq([i \in DOMAIN admitted |-> admitted[i] + 1],
                             LAMBDA age : age < Period)
    /\ UNCHANGED <<lockQueue, limiterFrame>>

\* RateLimiter(Calls, Period), no PhoneChecker in use
InitLimiter == InitBatch

NextLimiter ==
    \/ LimiterTick
    \/ \E c \in Acquirers : CallAcquire(c)
    \/ \E c \in Acquirers : EnterAcquire(c)
    \/ \E c \in Acquirers : WakeUp(c)

SpecLimiter == InitLimiter /\ [][NextLimiter]_vars

\* time advances, and the event loop runs every coroutine that is ready:
\* the holder of the lock whose sleep is over, and the first waiter of the
\* lock once it is released (asyncio.Lock wakes its waiters in order)
SpecLimiterLive ==
    /\ SpecLimiter
    /\ WF_vars(LimiterTick)
    /\ \A c \in Acquirers : WF_vars(EnterAcquire(c)) /\ WF_vars(WakeUp(c))

-----------------------------------------------------------------------------
(* ConfidenceScorer (SpecConfidence).  Scores are integers in               *)
(* ten-thousandths, response times are in tenths of a second and the age    *)
(* of a cache timestamp is in hours; a timestamp later than the clock has   *)
(* a negative age.                                                          *)

\* the platforms given to the scorer: one it knows and one it does not
ScoredPlatforms == {"whatsapp", "unknown"}

\* status codes of each class of calculate_api_response_score
StatusCodes == {200, 201, 429, 404}

\* response times in tenths of a second: 0, 3 s, 6 s and 10000 s
ResponseTimes == {0, 30, 60, 100000}

\* the age of the cache timestamp in hours, if one is given: written a day
\* ahead of the clock, now, 12 hours ago, two days ago
CacheTimestamps == {None} \cup {Some(age) : age \in {-24, 0, 12, 48}}

\* the response_time argument of update_platform_reliability, if given
UpdateTimes == {None, Some(60)}

\* 0.9 ** api_timeouts
RECURSIVE PowerOfNineTenths(_)
PowerOfNineTenths(n) == IF n = 0 THEN Scale ELSE (PowerOfNineTenths(n - 1) * 9) \div 10

\* calculate_api_response_score
CalculateApiResponseScore(status_code, response_time) ==
    LET status_score == IF status_code = 200 THEN 10000
                        ELSE IF status_code \in {201, 202, 203} THEN 9000
                        ELSE IF status_code \in {429, 503} THEN 3000
                        ELSE 5000
        raw == ((50 - response_time) * Scale) \div 45
        time_score == Max(0, Min(Scale, raw))
    IN  (status_score * 7 + time_score * 3) \div 10

\* calculate_cache_age_score: max(0.0, 1.0 - age / max_age), max_age 24 h
CalculateCacheAgeScore(age) == Max(0, Scale - (age * Scale) \div 24)

\* round(final_score, 2)
RoundToHundredths(score) == ((score + 50) \div 100) * 100

\* ConfidenceScorer.get_confidence_score, as a function of the reliability
\* state
ConfidenceScore(scores, platform, status_code, response_time, cache_timestamp) ==
    LET reliability == IF platform \in DOMAIN scores THEN scores[platform]
                       ELSE PlatformReliability(8000)
        platform_score ==
            (((reliability.base_score * reliability.success_rate) \div Scale)
                * PowerOfNineTenths(reliability.api_timeouts)) \div Scale
        api_score == CalculateApiResponseScore(status_code, response_time)
        cache_score == IF cache_timestamp # None
                       THEN CalculateCacheAgeScore(TheValue(cache_timestamp))
                       ELSE Scale
    IN  RoundToHundredths((platform_score * 4 + api_score * 3 + cache_score * 3)
                             \div 10)

\* what the scorer leaves alone
scorerFrame == <<now, cacheVars, use_cache, ostats, call_count, last, ret,
                 evicted, shared, batchVars, lockVars, limiterVars,
                 modelsVars, retryVars>>

\* ConfidenceScorer.update_platform_reliability
UpdatePlatformReliability(platform, success, response_time) ==
    /\ nops < MaxUpdates
    /\ nops' = nops + 1
    /\ platform_scores' =
         IF platform \notin DOMAIN platform_scores THEN platform_scores
         ELSE [platform_scores EXCEPT
                 ![platform].success_rate =
                     (@ * 99 + (IF success THEN Scale ELSE 0)) \div 100,
                 ![platform].last_failure = IF success THEN @ ELSE TRUE,
                 ![platform].updates = @ + 1,
                 ![platform].api_timeouts =
                     IF ~success /\ response_time # None
                        /\ TheValue(response_time) > 50
                     THEN @ + 1 ELSE @]
    /\ scored' = None
    /\ UNCHANGED scorerFrame

\* ConfidenceScorer.get_confidence_score
GetConfidenceScore(platform, status_code, response_time, cache_timestamp) ==
    /\ scored' = Some([platform |-> platform, status_code |-> status_code,
                       response_time |-> response_time,
                       cache_timestamp |-> cache_timestamp,
                       score |-> ConfidenceScore(platform_scores, platform,
                                                 status_code, response_time,
                                                 cache_timestamp)])
    /\ UNCHANGED <<platform_scores, nops, scorerFrame>>

\* ConfidenceScorer(), no PhoneChecker in use
InitConfidence == InitBatch

NextConfidence ==
    \/ \E platform \in ScoredPlatforms, success \in BOOLEAN,
          response_time \in UpdateTimes :
           UpdatePlatformReliability(platform, success, response_time)
    \/ \E platform \in ScoredPlatforms, status_code \in StatusCodes,
          response_time \in ResponseTimes, cache_timestamp \in CacheTimestamps :
           GetConfidenceScore(platform, status_code, response_time, cache_timestamp)

SpecConfidence == InitConfidence /\ [][NextConfidence]_vars

-----------------------------------------------------------------------------
(* The data objects of models.py, constructed directly (SpecModels) *)

\* the platform names of a list of results
PlatformsOf(results) == [i \in DOMAIN results |-> results[i].platform]

\* PhoneCheckResponse.platforms_found
PlatformsFound(results) == PlatformsOf(SelectSeq(results, LAMBDA r : r.exists))

\* PhoneCheckResponse.platforms_not_found
PlatformsNotFound(results) ==
    PlatformsOf(SelectSeq(results, LAMBDA r : ~r.exists /\ IsSuccessful(r)))

\* PhoneCheckResponse.platforms_error
PlatformsError(results) == PlatformsOf(SelectSeq(results, LAMBDA r : ~IsSuccessful(r)))

\* PhoneCheckResponse(request, results), with its derived lists
PhoneCheckResponse(results) ==
    [results |-> results,
     successful_checks |-> SuccessfulChecks(results),
     failed_checks |-> FailedChecks(results),
     platforms_found |-> PlatformsFound(results),
     platforms_not_found |-> PlatformsNotFound(results),
     platforms_error |-> PlatformsError(results)]

\* what the constructors leave alone
modelsFrame == <<now, cacheVars, use_cache, ostats, call_count, last, ret, evicted,
                 nops, shared, batchVars, lockVars, limiterVars, scorerVars,
                 retryVars>>

\* PhoneCheckResult(platform, status, exists=...)
NewResult(platform, status, exists) ==
    /\ Len(constructed) < MaxResults
    /\ response = None
    /\ constructed' = Append(constructed, MkResult(platform, status, exists, None))
    /\ UNCHANGED <<response, modelsFrame>>

\* PhoneCheckResponse(request, results) from the results constructed
NewResponse ==
    /\ response = None
    /\ response' = Some(PhoneCheckResponse(constructed))
    /\ UNCHANGED <<constructed, modelsFrame>>

\* no PhoneChecker in use
InitModels == InitBatch

NextModels ==
    \/ \E platform \in Range(Checkers), status \in Statuses, exists \in BOOLEAN :
           NewResult(platform, status, exists)
    \/ NewResponse

SpecModels == InitModels /\ [][NextModels]_vars

-----------------------------------------------------------------------------
(* Properties of check_number (Spec) *)

\* C1: partial-failure isolation.  A check_number call on a valid number
\* returns normally with one result per requested platform, and
\* successful_checks + failed_checks is the number of requested platforms;
\* when every requested platform is checked in the call, the results with a
\* non-success status are exactly as many as the platforms whose adapter
\* raised, returned a non-success result or is missing.
C1_PartialFailureIsolation ==
    (last.op = "check_number"
       /\ IsValidNumber(last.country_code, CleanPhoneNumber(last.phone)))
    => LET requested == RequestPlatforms(last.platforms)
           fails(p) == p \notin Range(Checkers)
                         \/ last.outcomes[p] \in {"timeout", "raise"}
           K == Cardinality({i \in DOMAIN requested : fails(requested[i])})
           nonsuccess == {j \in DOMAIN ret.results :
                             ret.results[j].status \notin {"exists", "not_exists"}}
       IN  /\ ~ret.raised
           /\ Len(ret.results) = Len(requested)
           /\ ret.successful_checks + ret.failed_checks = Len(requested)
           /\ ret.cached_results = <<>>
                => /\ Cardinality(nonsuccess) = K
                   /\ ret.failed_checks = K

\* two platforms were checked, one adapter raised and the other succeeded
C1_Witness ==
    /\ last.op = "check_number"
    /\ ~ret.raised
    /\ ret.cached_results = <<>>
    /\ Len(ret.results) = 2
    /\ \E p \in Range(Checkers) : last.outcomes[p] = "raise"
    /\ ret.failed_checks = 1
    /\ ret.successful_checks = 1

C3_CacheRoundTrip ==
    [][ ( /\ use_cache
          /\ last.op = "check_number"
          /\ ~ret.raised
          /\ last'.op = "check_number"
          /\ CleanPhoneNumber(last'.phone) = CleanPhoneNumber(last.phone)
          /\ last'.country_code = last.country_code
          /\ last'.platforms = last.platforms
          /\ ~last'.force_refresh )
        => call_count' = call_count ]_vars

\* C4: check_number with force_refresh invokes the adapter of every
\* requested platform once and no other adapter, does not read the cache
\* (its hit and miss counters stay, no result is tagged as cached), and with
\* the cache enabled the entry of the key afterwards holds the fresh results,
\* in the index and in its file.
C4_ForceRefresh ==
    [][ (last'.op = "check_number" /\ ~ret'.raised /\ last'.force_refresh)
        => LET requested == RequestPlatforms(last'.platforms)
               cache_key == GetCacheKey(CleanPhoneNumber(last'.phone),
                                        last'.country_code)
           IN  /\ \A p \in Range(Checkers) :
                     call_count'[p] = call_count[p]
                                        + (IF p \in Range(requested) THEN 1 ELSE 0)
               /\ stats'.hits = stats.hits
               /\ stats'.misses = stats.misses
               /\ ostats'.cache_hits = ostats.cache_hits
               /\ Len(ret'.results) = Len(requested)
               /\ \A j \in DOMAIN ret'.results : ~ret'.results[j].cached
               /\ use_cache
                    => /\ cache_key \in DOMAIN cache_data'
                       /\ cache_data'[cache_key].timestamp = now
                       /\ Len(cache_data'[cache_key].results) = Len(ret'.results)
                       /\ \A j \in DOMAIN ret'.results :
                             /\ cache_data'[cache_key].results[j].platform
                                  = ret'.results[j].platform
                             /\ cache_data'[cache_key].results[j].status
                                  = ret'.results[j].status
                             /\ cache_data'[cache_key].results[j].exists
                                  = ret'.results[j].exists
                       /\ cache_key \in DOMAIN disk'
                       /\ disk'[cache_key] = cache_data'[cache_key] ]_vars

\* a forced refresh of both platforms while the index held an unexpired
\* entry of the key
C4_Witness ==
    /\ last.op = "check_number"
    /\ last.force_refresh
    /\ ~ret.raised
    /\ use_cache
    /\ ret.before # None
    /\ now - TheValue(ret.before) < ExpireAfter
    /\ Len(ret.results) = 2

\* C7: a check_number whose phone is not a valid number of the country
\* raises, and leaves the cache (index, files, counters), the orchestrator
\* statistics and every adapter's invocation count as they were.
C7_ValidationNoSideEffects ==
    [][ (last'.op = "check_number"
           /\ ~IsValidNumber(last'.country_code, CleanPhoneNumber(last'.phone)))
        => /\ ret'.raised
           /\ cache_data' = cache_data
           /\ key_order' = key_order
           /\ disk' = disk
           /\ stats' = stats
           /\ ostats' = ostats
           /\ call_count' = call_count ]_vars

\* an invalid number was rejected after a check had filled the cache and the
\* counters
C7_Witness ==
    /\ last.op = "check_number"
    /\ ret.raised
    /\ cache_data # <<>>
    /\ ostats.total_checks > 0
    /\ \E p \in Range(Checkers) : call_count[p] > 0

\* C13: a response that check_number returned is not changed by a later
\* operation: its freshly fetched results stay untagged (not cached, no
\* freshness score).
C13_ResponsesNotShared ==
    \A cache_key \in shared :
        \A i \in DOMAIN FreshResultsOf(cache_key) :
            /\ ~FreshResultsOf(cache_key)[i].cached
            /\ FreshResultsOf(cache_key)[i].freshness_score = None

\* C14: in a response of check_number, the results served from the cache
\* in that call are tagged cached with the freshness score of the entry, a
\* value in (0, 1] (kept times ExpireAfter), and the results obtained from
\* the adapters in that call are not tagged.
C14_CachedTagging ==
    (last.op = "check_number" /\ ~ret.raised)
    => /\ ret.results = ret.cached_results \o ret.new_results
       /\ \A i \in DOMAIN ret.results :
              IF i <= Len(ret.cached_results)
              THEN /\ ret.found
                   /\ ret.results[i].cached
                   /\ ret.results[i].freshness_score = ret.entry.freshness_score
                   /\ ret.results[i].freshness_score # None
                   /\ 0 < TheValue(ret.results[i].freshness_score)
                   /\ TheValue(ret.results[i].freshness_score) <= ExpireAfter
              ELSE /\ ~ret.results[i].cached
                   /\ ret.results[i].freshness_score = None
       /\ \A p \in Range(Checkers) :
              last.outcomes[p] # "none"
              => \E i \in DOMAIN ret.results :
                     /\ ret.results[i].platform = p
                     /\ ~ret.results[i].cached

\* a response mixes a result served from the cache with one fetched from an
\* adapter in the same call
C14_Witness ==
    /\ last.op = "check_number"
    /\ ~ret.raised
    /\ ret.cached_results # <<>>
    /\ ret.new_results # <<>>
    /\ \E p \in Range(Checkers) : last.outcomes[p] = "exists"

\* C16: with the cache enabled, a check_number without force_refresh that
\* follows invalidate_cache with the same phone string and country code
\* invokes every requested adapter.
C16_OrchestratorInvalidation ==
    [][ ( /\ use_cache
          /\ last.op = "invalidate_cache"
          /\ last'.op = "check_number"
          /\ last'.phone = last.phone
          /\ last'.country_code = last.country_code
          /\ ~last'.force_refresh
          /\ ~ret'.raised )
        => \A p \in Range(ret'.request) \cap Range(Checkers) :
               call_count'[p] = call_count[p] + 1 ]_vars

\* C22: every check_number that returns a response adds the number of its
\* results to total_checks and the response's successful_checks and
\* failed_checks to the counters of those names, and nothing else changes
\* the three counters; so each counter is the sum over the responses.
C22_StatisticsTotals ==
    [][ /\ (last'.op = "check_number" /\ ~ret'.raised)
           => /\ ostats'.total_checks = ostats.total_checks + Len(ret'.results)
              /\ ostats'.successful_checks
                   = ostats.successful_checks + ret'.successful_checks
              /\ ostats'.failed_checks = ostats.failed_checks + ret'.failed_checks
        /\ (last'.op # "check_number" \/ ret'.raised)
           => /\ ostats'.total_checks = ostats.total_checks
              /\ ostats'.successful_checks = ostats.successful_checks
              /\ ostats'.failed_checks = ostats.failed_checks ]_vars

-----------------------------------------------------------------------------
(* Properties of the CacheManager (SpecCache) *)

\* C5: a get that immediately follows a successful set of the same key
\* returns an entry whose results are the results that were stored and whose
\* freshness score is in (0, 1].
C5_GetAfterSet ==
    [][ ( /\ last.op = "set"
          /\ last.wr = "ok"
          /\ last'.op = "get"
          /\ last'.phone = last.phone
          /\ last'.country_code = last.country_code )
        => /\ ret'.found
           /\ ret'.entry.results = last.results
           /\ ret'.entry.freshness_score # None
           /\ 0 < TheValue(ret'.entry.freshness_score)
           /\ TheValue(ret'.entry.freshness_score) <= ExpireAfter ]_vars

\* a get returned the two results of an entry written in the same second
C5_Witness ==
    /\ last.op = "get"
    /\ ret.found
    /\ now > 0
    /\ ret.before = Some(now)
    /\ Len(ret.entry.results) = 2

\* C6: a get of a key whose entry is at least expire_after seconds old
\* returns absent, counts one miss and removes the entry from the index and
\* its file; a get of a key the index does not hold returns absent and
\* leaves index and files alone; and no get returns an entry that is
\* expire_after seconds old or older.
C6_ExpiryOnRead ==
    [][ last'.op = "get"
        => LET cache_key == GetCacheKey(last'.phone, last'.country_code)
           IN  /\ ( /\ cache_key \in DOMAIN cache_data
                    /\ now - cache_data[cache_key].timestamp >= ExpireAfter )
                  => /\ ~ret'.found
                     /\ stats'.misses = stats.misses + 1
                     /\ stats'.hits = stats.hits
                     /\ cache_key \notin DOMAIN cache_data'
                     /\ cache_key \notin DOMAIN disk'
               /\ cache_key \notin DOMAIN cache_data
                  => /\ ~ret'.found
                     /\ cache_data' = cache_data
                     /\ disk' = disk
               /\ ret'.found => now - ret'.entry.timestamp < ExpireAfter ]_vars

\* a get found the entry expired and removed it
C6_Witness ==
    /\ last.op = "get"
    /\ ~ret.found
    /\ ret.before # None
    /\ now - TheValue(ret.before) >= ExpireAfter
    /\ ret.removed = {GetCacheKey(last.phone, last.country_code)}
    /\ stats.misses > 0

\* C8: a set evicts only when the new entry would push the accounted size
\* above the budget; every evicted entry was written no later than every
\* entry that stays; the eviction ends with the accounted size at most 80%
\* of the budget or with no entry left; and it removes no entry beyond that
\* point.
C8_EvictionOrder ==
    [][ last'.op = "set"
        => LET data_size == EntryLen(NewEntry(last'.phone, last'.country_code,
                                              last'.results, now), TRUE)
               gone == ret'.evicted_keys
               kept == (DOMAIN cache_data) \ gone
               over == stats.size_bytes + data_size > MaxSizeBytes
           IN  /\ gone \subseteq DOMAIN cache_data
               /\ kept \subseteq DOMAIN cache_data'
               /\ ~over => gone = {}
               /\ \A k \in gone, j \in kept :
                     cache_data[k].timestamp <= cache_data[j].timestamp
               /\ over => \/ 5 * ret'.size_after_evict <= 4 * MaxSizeBytes
                          \/ kept = {}
               /\ gone # {}
                    => \E k \in gone :
                          /\ \A h \in gone :
                                cache_data[h].timestamp <= cache_data[k].timestamp
                          /\ 5 * (ret'.size_after_evict
                                    + EntryLen(cache_data[k], FALSE))
                               > 4 * MaxSizeBytes ]_vars

\* a set evicted an entry and kept a younger one, after a get had been served
C8_Witness ==
    /\ last.op = "set"
    /\ ret.evicted_keys # {}
    /\ stats.hits > 0
    /\ Cardinality(DOMAIN cache_data) >= 2

\* C9: after every set, the accounted size is at most the byte budget.
C9_SizeBound ==
    last.op = "set" => stats.size_bytes <= MaxSizeBytes

\* C10: the eviction counter is the number of entries _evict_old_entries has
\* removed; the removals of expiry, invalidate and clear_all do not count.
C10_EvictionCounter ==
    stats.evictions = evicted

\* an invalidate removed an entry after an eviction had removed another
C10_Witness ==
    /\ evicted > 0
    /\ last.op = "invalidate"
    /\ ret.removed # {}

\* C15: invalidate removes the entry of its key from the index and from the
\* directory when there is one, leaves every other entry and file as it
\* was, and raises nothing; on a key the index does not hold, be it never
\* stored or just invalidated, it changes nothing.
C15_InvalidateIdempotent ==
    [][ last'.op = "invalidate"
        => LET cache_key == GetCacheKey(last'.phone, last'.country_code)
           IN  /\ ~ret'.raised
               /\ cache_key \notin DOMAIN cache_data'
               /\ cache_key \notin DOMAIN disk'
               /\ cache_data' = Drop(cache_data, cache_key)
               /\ disk' = Drop(disk, cache_key)
               /\ key_order' = RemoveFromSeq(key_order, cache_key)
               /\ stats'.hits = stats.hits
               /\ stats'.misses = stats.misses
               /\ stats'.evictions = stats.evictions
               /\ cache_key \notin DOMAIN cache_data => cacheVars' = cacheVars
               /\ ( /\ last.op = "invalidate"
                    /\ last.phone = last'.phone
                    /\ last.country_code = last'.country_code )
                  => cacheVars' = cacheVars ]_vars

\* an invalidate removed the entry of its key and another entry stayed
C15_Witness ==
    /\ last.op = "invalidate"
    /\ ret.removed # {}
    /\ DOMAIN cache_data # {}
    /\ DOMAIN disk = DOMAIN cache_data

\* C17: when clear_all returns, the index is empty, the directory holds no
\* entry file, and entries_count and size_bytes are 0; a get that follows,
\* for whatever key, returns absent.
C17_ClearAllPostcondition ==
    [][ /\ last'.op = "clear_all"
           => /\ ~ret'.raised
              /\ cache_data' = <<>>
              /\ key_order' = <<>>
              /\ disk' = <<>>
              /\ stats'.entries_count = 0
              /\ stats'.size_bytes = 0
        /\ (last.op = "clear_all" /\ last'.op = "get")
           => /\ ~ret'.found
              /\ cache_data' = <<>> ]_vars

\* clear_all emptied a cache that held two entries
C17_Witness ==
    /\ last.op = "clear_all"
    /\ Cardinality(ret.removed) = 2
    /\ cache_data = <<>>
    /\ disk = <<>>
    /\ stats.size_bytes = 0

\* C18: a get adds one to hits when it returns an entry and one to misses
\* when it returns absent (key not in the index, or entry expired), and
\* leaves the other counter alone; no other operation changes either
\* counter; so hits + misses is the number of gets made.  get_stats
\* reports the hit rate hits / (hits + misses), and 0 before the first get.
C18_HitMissAccounting ==
    [][ /\ last'.op = "get"
           => LET cache_key == GetCacheKey(last'.phone, last'.country_code)
                  live == /\ cache_key \in DOMAIN cache_data
                          /\ now - cache_data[cache_key].timestamp < ExpireAfter
              IN  /\ ret'.found = live
                  /\ stats'.hits = stats.hits + (IF live THEN 1 ELSE 0)
                  /\ stats'.misses = stats.misses + (IF live THEN 0 ELSE 1)
        /\ last'.op # "get"
           => /\ stats'.hits = stats.hits
              /\ stats'.misses = stats.misses
        /\ stats'.hits + stats'.misses <= nops'
        /\ IF stats'.hits + stats'.misses = 0
           THEN HitRate(stats')[1] = 0
           ELSE HitRate(stats')[1] * (stats'.hits + stats'.misses)
                  = stats'.hits * HitRate(stats')[2] ]_vars

\* gets have counted a hit, a miss on a missing key and a miss on expiry
C18_Witness ==
    /\ last.op = "get"
    /\ ~ret.found
    /\ ret.removed # {}
    /\ stats.hits >= 1
    /\ stats.misses >= 2
    /\ HitRate(stats) = <<stats.hits, stats.hits + stats.misses>>

-----------------------------------------------------------------------------
(* Properties of the CacheManager on a faulty file system (SpecFaults) *)

\* C11: when the write of the file fails during set, the key is not in the
\* index when set returns, whether the index held the key before the call
\* or not, and set does not raise.
C11_RollbackOnWriteFailure ==
    [][ ( /\ last'.op = "set"
          /\ last'.wr # "ok" )
        => /\ GetCacheKey(last'.phone, last'.country_code) \notin DOMAIN cache_data'
           /\ GetCacheKey(last'.phone, last'.country_code) \notin Range(key_order')
           /\ ~ret'.raised ]_vars

\* the write failed during the update of a key the index held, and the key
\* left the index
C11_Witness ==
    /\ last.op = "set"
    /\ last.wr # "ok"
    /\ ret.before # None
    /\ ~ret.raised
    /\ GetCacheKey(last.phone, last.country_code) \notin DOMAIN cache_data

\* C12: the keys of the index are the keys that have a file, and every
\* entry of the index has the content of its file.
C12_MemoryDiskAgreement ==
    /\ DOMAIN cache_data = DOMAIN disk
    /\ \A k \in DOMAIN cache_data : cache_data[k] = disk[k]

-----------------------------------------------------------------------------
(* Properties of initialize (SpecRestart) *)

\* C19: initialize does not raise, whatever the files hold; every file that
\* does not parse, lacks timestamp or results, or has a timestamp that is
\* no date is removed from the directory and absent from the index; every
\* valid record that is not older than expire_after is in the index.
C19_FailSoftInitialize ==
    [][ last'.op = "initialize"
        => /\ ~ret'.raised
           /\ \A k \in DOMAIN disk :
                  IF "timestamp" \in DOMAIN disk[k] /\ "results" \in DOMAIN disk[k]
                  THEN now - disk[k].timestamp <= ExpireAfter
                       => /\ k \in DOMAIN cache_data'
                          /\ cache_data'[k] = disk[k]
                  ELSE /\ k \notin DOMAIN disk'
                       /\ k \notin DOMAIN cache_data' ]_vars

\* C20: when a new CacheManager has initialized on the directory, every
\* record that set() wrote and that is not older than expire_after is in
\* the index as it was written, and every record older than expire_after
\* is neither in the index nor in the directory; an initialize right after
\* a set holds the results given to that set; and a get that follows an
\* initialize returns, for a key whose record is younger than
\* expire_after, the results of that record.
C20_DurabilityAcrossRestart ==
    [][ /\ (last'.op = "initialize" /\ ~ret'.raised)
           => \A k \in DOMAIN disk :
                  ValidateCacheData(disk[k])
                  => IF now - disk[k].timestamp > ExpireAfter
                     THEN /\ k \notin DOMAIN cache_data'
                          /\ k \notin DOMAIN disk'
                     ELSE /\ k \in DOMAIN cache_data'
                          /\ cache_data'[k] = disk[k]
                          /\ k \in DOMAIN disk'
                          /\ disk'[k] = disk[k]
        /\ (last.op = "set" /\ last.wr = "ok" /\ last'.op = "initialize" /\ ~ret'.raised)
           => LET cache_key == GetCacheKey(last.phone, last.country_code)
              IN  /\ cache_key \in DOMAIN cache_data'
                  /\ cache_data'[cache_key].results = last.results
                  /\ cache_data'[cache_key].timestamp = now
        /\ (last.op = "initialize" /\ ~ret.raised /\ last'.op = "get")
           => LET cache_key == GetCacheKey(last'.phone, last'.country_code)
              IN  ( /\ cache_key \in DOMAIN disk
                    /\ now - disk[cache_key].timestamp < ExpireAfter )
                  => /\ ret'.found
                     /\ ret'.entry.results = disk[cache_key].results ]_vars

\* a second CacheManager has loaded an entry that a set wrote, later than
\* the start of the run, into the first one
C20_Witness ==
    /\ last.op = "initialize"
    /\ ~ret.raised
    /\ nops >= 2
    /\ \E k \in DOMAIN cache_data :
           /\ cache_data[k].timestamp > 0
           /\ cache_data[k] = disk[k]
           /\ Len(cache_data[k].results) = 2

-----------------------------------------------------------------------------
(* Properties of check_number on a faulty file system (SpecWriteBack) *)

\* C21: when the write of the write-back step fails, check_number raises
\* nothing, its response holds the cached results followed by one result
\* for every platform it fetched, with the status the adapter answered,
\* and the key is not in the index afterwards.
C21_WriteFailureNonFatal ==
    (last.op = "check_number" /\ last.wr # "ok" /\ ret.new_results # <<>>)
    => /\ ~ret.raised
       /\ ret.results = ret.cached_results \o ret.new_results
       /\ Len(ret.results) = Len(ret.request)
       /\ \A p \in Range(Checkers) :
              last.outcomes[p] # "none"
              => \E i \in DOMAIN ret.new_results :
                     /\ ret.new_results[i].platform = p
                     /\ ret.new_results[i].status
                          = (IF last.outcomes[p] = "raise" THEN "error"
                             ELSE last.outcomes[p])
       /\ GetCacheKey(CleanPhoneNumber(last.phone), last.country_code)
             \notin DOMAIN cache_data

\* the write failed after a partial hit: the response holds a cached and a
\* fetched result and the key has left the index
C21_Witness ==
    /\ last.op = "check_number"
    /\ last.wr # "ok"
    /\ ~ret.raised
    /\ ret.cached_results # <<>>
    /\ ret.new_results # <<>>
    /\ ret.before # None
    /\ cache_data = <<>>

-----------------------------------------------------------------------------
(* Properties of health_check (SpecHealth) *)

\* C24: health_check returns with one component entry per adapter, and its
\* overall status is healthy exactly when every component entry is
\* healthy, and degraded otherwise.
C24_HealthOverallStatus ==
    last.op = "health_check"
    => /\ ~ret.raised
       /\ Range(Checkers) \subseteq DOMAIN ret.health.components
       /\ ret.health.status \in {"healthy", "degraded"}
       /\ ret.health.status = "healthy"
            <=> \A k \in DOMAIN ret.health.components :
                    ret.health.components[k] = "healthy"

-----------------------------------------------------------------------------
(* Properties of check_multiple_numbers (SpecBatch) *)

\* the status check_number reports for a platform whose adapter did this
ExpectedStatus(platform, outcome) ==
    IF platform \notin Range(Checkers) \/ outcome = "raise" THEN "error"
    ELSE outcome

C25_PerRequestBound ==
    \A i \in DOMAIN tasks : Cardinality(InFlight(tasks[i])) <= MaxConcurrentChecks

\* a request has max_concurrent_checks adapter calls in flight while
\* another adapter call of the same request waits for the semaphore
C25_Witness ==
    \E i \in DOMAIN tasks :
        /\ Cardinality(InFlight(tasks[i])) = MaxConcurrentChecks
        /\ tasks[i].semaphore = 0
        /\ \E j \in DOMAIN tasks[i].checks :
              /\ tasks[i].checks[j].pc = "waiting"
              /\ tasks[i].checks[j].platform \in Range(Checkers)

\* C26: the adapter check calls in flight across all the requests that run
\* concurrently on one PhoneChecker are never more than its
\* max_concurrent_checks.
C26_InstanceBound ==
    SumOver(DOMAIN tasks, [i \in DOMAIN tasks |-> Cardinality(InFlight(tasks[i]))])
        <= MaxConcurrentChecks

-----------------------------------------------------------------------------
(* Properties of the cache under concurrent callers (SpecLock) *)

-----------------------------------------------------------------------------
(* Properties of RateLimiter.acquire (SpecLimiter, SpecLimiterLive) *)

\* C28: no time window of length period contains more than calls moments
\* at which an acquire call returns.
C28_SlidingWindow == Len(admitted) <= Calls

\* C29: every acquire call eventually returns, without raising, also when
\* the window is full and other callers wait.
C29_AcquireReturns ==
    \A c \in Acquirers :
        (acquirers[c].pc # "idle") ~> (acquirers[c].pc = "idle" /\ ~acquirers[c].raised)

\* the window is full, the holder of the lock sleeps and another caller
\* waits for the lock
C29_Witness ==
    /\ Len(Recent(timestamps)) >= Calls
    /\ \E c, d \in Acquirers :
          /\ acquirers[c].pc = "sleeping"
          /\ acquirers[d].pc = "queued"

-----------------------------------------------------------------------------
(* Properties of the ConfidenceScorer (SpecConfidence) *)

\* C30: get_confidence_score returns a value in [0,1] for any status code,
\* any non-negative response time, any platform in any reliability state
\* that update_platform_reliability can reach, with or without a cache
\* timestamp.
C30_ScoreInUnitInterval ==
    scored # None
    => /\ TheValue(scored).score >= 0
       /\ TheValue(scored).score <= Scale

-----------------------------------------------------------------------------
(* Properties of the data objects (SpecModels) *)

\* C31: for every constructed PhoneCheckResult, whatever its status and
\* whatever was passed for the exists argument, the stored existence flag
\* equals (status == Exists).
C31_ExistsFollowsStatus ==
    \A i \in DOMAIN constructed :
        constructed[i].exists = (constructed[i].status = "exists")

\* C40: for every PhoneCheckResponse, successful_checks + failed_checks is
\* the number of results, successful_checks counts exactly the results
\* whose status is Exists or NotExists, and the platform of every result is
\* in exactly one of platforms_found, platforms_not_found, platforms_error.
C40_ResponseClassification ==
    response # None
    => LET r == TheValue(response)
       IN  /\ r.successful_checks + r.failed_checks = Len(r.results)
           /\ r.successful_checks
                = Cardinality({i \in DOMAIN r.results :
                                  r.results[i].status \in {"exists", "not_exists"}})
           /\ \A i \in DOMAIN r.results :
                 (IF r.results[i].platform \in Range(r.platforms_found)
                  THEN 1 ELSE 0)
                 + (IF r.results[i].platform \in Range(r.platforms_not_found)
                    THEN 1 ELSE 0)
                 + (IF r.results[i].platform \in Range(r.platforms_error)
                    THEN 1 ELSE 0) = 1

-----------------------------------------------------------------------------
(* Properties of check_number under a fair event loop (SpecBatchLive) *)

\* the check_number coroutine at position i has ended: it raised the
\* validation error, or it returned a response with one result per
\* requested platform
Ended(i) ==
    /\ i \in DOMAIN tasks
    /\ tasks[i].pc \in {"done", "gathered"}
    /\ tasks[i].raised
         \/ Len(tasks[i].results) = Len(RequestPlatforms(last.platforms))

\* C32: if every adapter call eventually returns or raises, every
\* check_number call eventually ends, with a response or with the
\* validation error, however many platforms it requests relative to
\* max_concurrent_checks.
C32_CheckNumberTerminates ==
    \A i \in TaskIds :
        (i \in DOMAIN tasks /\ tasks[i].pc \in {"created", "checking"}) ~> Ended(i)

\* a request for more adapters than max_concurrent_checks has returned its
\* response after an adapter raised
C32_Witness ==
    \E i \in DOMAIN tasks :
        /\ Ended(i)
        /\ ~tasks[i].raised
        /\ Cardinality({j \in DOMAIN tasks[i].checks :
                           tasks[i].checks[j].platform \in Range(Checkers)})
             > MaxConcurrentChecks
        /\ tasks[i].checks[1].outcome = "raise"

-----------------------------------------------------------------------------
(* Reads and the lifetime of an entry (Spec) *)

\* the step is a check_number call that returns a response
ChecksNumber == nops' = nops + 1 /\ last'.op = "check_number" /\ ~ret'.raised

\* the response of the step's check_number holds cached results only
ServedFromCache == ret'.cached_results # <<>> /\ ret'.new_results = <<>>

\* C33: a check_number served entirely from the cache performs no cache
\* set; no step gives an entry a write time other than the time of a
\* check_number that fetched new results, so no read changes it; and an
\* entry is found only before its write time plus expire_after.
C33_ReadsDoNotExtendLifetime ==
    [][/\ (ChecksNumber /\ ServedFromCache) =>
             /\ disk' = disk
             /\ DOMAIN cache_data' = DOMAIN cache_data
       /\ \A k \in DOMAIN cache_data' :
             (k \notin DOMAIN cache_data
                \/ cache_data'[k].timestamp # cache_data[k].timestamp) =>
                 /\ ChecksNumber
                 /\ ret'.new_results # <<>>
                 /\ cache_data'[k].timestamp = now
       /\ (ChecksNumber /\ ret'.found) =>
             /\ ret'.before # None
             /\ now < TheValue(ret'.before) + ExpireAfter]_vars

\* a check_number served entirely from the cache has read an entry written
\* earlier, and the entry still has its write time
C33_Witness ==
    /\ last.op = "check_number"
    /\ ret.found
    /\ ret.cached_results # <<>>
    /\ ret.new_results = <<>>
    /\ now > 0
    /\ ret.before = Some(0)
    /\ WriteTime(TheCache, GetCacheKey(CleanPhoneNumber(last.phone),
                                       last.country_code)) = Some(0)

-----------------------------------------------------------------------------
(* check_number and the reliability records (Spec) *)

\* the adapter calls check_number has completed
AdapterCalls == SumOver(DOMAIN call_count, call_count)

\* the updates made to the PlatformReliability records
ReliabilityUpdates ==
    SumOver(DOMAIN platform_scores,
            [p \in DOMAIN platform_scores |-> platform_scores[p].updates])

\* C34: each adapter call completed on behalf of check_number causes exactly
\* one update of a PlatformReliability record, so the records have been
\* updated as many times as adapter calls have completed.
C34_OneUpdatePerAdapterCall == ReliabilityUpdates = AdapterCalls

-----------------------------------------------------------------------------
(* Updates of platforms the scorer has no record of (SpecConfidence) *)

\* C35: update_platform_reliability for a platform without a record gives
\* it the default record (base score 0.8, success rate 1.0, no timeouts)
\* and applies the update to it, as it applies it to the record of a known
\* platform; so after every update the platform has a record, written once
\* more than the record it had or the default.
C35_UpdateCreatesDefaultRecord ==
    [][\A platform \in ScoredPlatforms, success \in BOOLEAN,
          response_time \in UpdateTimes :
           UpdatePlatformReliability(platform, success, response_time) =>
               LET reliability == IF platform \in DOMAIN platform_scores
                                  THEN platform_scores[platform]
                                  ELSE PlatformReliability(8000)
               IN  /\ platform \in DOMAIN platform_scores'
                   /\ platform_scores'[platform].base_score = reliability.base_score
                   /\ platform_scores'[platform].updates = reliability.updates + 1
                   /\ platform_scores'[platform].success_rate =
                         (reliability.success_rate * 99
                            + (IF success THEN Scale ELSE 0)) \div 100]_vars

-----------------------------------------------------------------------------
(* BaseChecker._make_request, called directly (SpecRequest) *)

Methods == {"GET", "POST"}

\* the values of config.retry_attempts
RetryAttempts == 0..DefaultRetryAttempts

\* the exceptions of client.request that _make_request handles
RequestFailures == {"TimeoutException", "RequestError"}

\* what _make_request leaves alone
requestFrame == <<now, cacheVars, use_cache, ostats, call_count, last, ret,
                  evicted, shared, batchVars, lockVars, limiterVars,
                  scorerVars, modelsVars>>

\* _make_request is called and issues the request of attempt 0
MakeRequest(method, retry_attempts) ==
    /\ nops < MaxRequests
    /\ retry.pc \in {"idle", "returned", "raised"}
    /\ nops' = nops + 1
    /\ retry' = [IdleRequest EXCEPT !.pc = "awaiting", !.method = method,
                                    !.retry_attempts = retry_attempts,
                                    !.attempts = 1]
    /\ UNCHANGED requestFrame

\* client.request returns: _make_request returns the response
ResponseArrives(status_code) ==
    /\ retry.pc = "awaiting"
    /\ retry' = [retry EXCEPT !.pc = "returned", !.response = Some(status_code)]
    /\ UNCHANGED <<nops, requestFrame>>

\* client.request raises exception: the except clause of the attempt.
\* Before the last attempt it evaluates asyncio.sleep(wait_time); the
\* module does not import asyncio, so the name lookup raises NameError
\* inside the handler and the NameError leaves _make_request: nothing is
\* waited for and no further request is issued.  At the last attempt the
\* clause re-raises the exception.
AttemptFails(exception) ==
    /\ retry.pc = "awaiting"
    /\ retry' = [retry EXCEPT
                    !.pc = "raised",
                    !.failures = Append(@, exception),
                    !.raised = IF retry.attempt < retry.retry_attempts
                               THEN "NameError" ELSE exception]
    /\ UNCHANGED <<nops, requestFrame>>

\* a BaseChecker, no request made
InitRequest == InitBatch

NextRequest ==
    \/ \E method \in Methods, retry_attempts \in RetryAttempts :
           MakeRequest(method, retry_attempts)
    \/ \E status_code \in StatusCodes : ResponseArrives(status_code)
    \/ \E exception \in RequestFailures : AttemptFails(exception)

SpecRequest == InitRequest /\ [][NextRequest]_vars

\* the backoff sleeps before attempts 1..n: 1, 2, 4, ...
Backoffs(n) == [k \in 1..n |-> 2 ^ (k - 1)]

\* C36: _make_request issues at most retry_attempts + 1 attempts; an
\* exception reaches its caller only when the last attempt has failed, after
\* attempt k < retry_attempts was followed by a wait of 2^k seconds and by
\* attempt k + 1, and it is the exception of the last attempt.
C36_RetryWithBackoff ==
    /\ retry.attempts <= retry.retry_attempts + 1
    /\ retry.pc = "raised" =>
          /\ retry.attempts = retry.retry_attempts + 1
          /\ retry.waits = Backoffs(retry.retry_attempts)
          /\ retry.raised = retry.failures[Len(retry.failures)]

-----------------------------------------------------------------------------
(* The cache counters of PhoneChecker.stats (Spec) *)

\* C37: every check_number call that returns a response increments exactly
\* one of cache_hits and cache_misses, so their sum grows by one with each
\* completed call.
C37_OneCounterPerCheck ==
    [][ChecksNumber =>
           ostats'.cache_hits + ostats'.cache_misses
             = ostats.cache_hits + ostats.cache_misses + 1]_vars

-----------------------------------------------------------------------------
(* One CacheManager: initialize(), called once or again, and its API on a  *)
(* file system that may refuse a write (SpecAccounting)                    *)

\* CacheManager._load_cache on an instance that may hold entries already:
\* every valid file replaces or adds the entry of its key, its length is
\* added to size_bytes, and entries_count is set to the length of the index
LoadCacheInto(c, files, order, rmFail) ==
    LET valid == {k \in DOMAIN files : ValidateCacheData(files[k])}
        loaded == [k \in (DOMAIN c.cache_data) \cup valid |->
                      IF k \in valid THEN files[k] ELSE c.cache_data[k]]
    IN  [cache_data |-> loaded,
         key_order  |-> c.key_order
                          \o SelectSeq(order, LAMBDA k : k \in valid
                                                  /\ k \notin DOMAIN c.cache_data),
         disk       |-> [k \in valid \cup ((DOMAIN files) \cap rmFail) |-> files[k]],
         stats      |-> [c.stats EXCEPT
                            !.size_bytes =
                                @ + SumOver(valid, [k \in valid |->
                                                       EntryLen(files[k], TRUE)]),
                            !.entries_count = Cardinality(DOMAIN loaded)]]

\* CacheManager.initialize on an instance that may hold entries already
InitializeInto(c, order, t, rmFail) ==
    LET l == LoadCacheInto(c, c.disk, order, rmFail)
        expired_keys ==
            SelectSeq(l.key_order,
                      LAMBDA k : t - l.cache_data[k].timestamp > ExpireAfter)
    IN  IF CleanupRaises(l) THEN l
        ELSE CleanupExpired(l, expired_keys, 1, rmFail)

\* initialize() is called on the CacheManager, for the first time or again
InitializeCache(order, rmFail) ==
    /\ nops < MaxSteps
    /\ CacheBecomes(InitializeInto(TheCache, order, now, rmFail))
    /\ last' = [NoLast EXCEPT !.op = "initialize", !.rmFail = rmFail]
    /\ ret' = [NoRet EXCEPT
                  !.raised = CleanupRaises(LoadCacheInto(TheCache, disk, order, rmFail)),
                  !.before = Some(stats.size_bytes),
                  !.removed = (DOMAIN disk) \ (DOMAIN disk')]
    /\ nops' = nops + 1
    /\ shared' = {}
    /\ UNCHANGED <<now, use_cache, ostats, call_count, evicted, extraVars>>

InitAccounting == InitRestart

\* the first operation is initialize()
NextAccounting ==
    \/ /\ last.op # "init"
       /\ Tick
    \/ /\ last.op # "init" /\ Usable /\ nops < MaxSteps
       /\ \E phone \in CachePhones, cc \in CountryCodes : Get(phone, cc, {})
    \/ /\ last.op # "init" /\ Usable /\ nops < MaxSteps
       /\ \E phone \in CachePhones, cc \in CountryCodes, results \in CachePayloads,
             wr \in WriteOutcomes :
              Set(phone, cc, results, wr, {})
    \/ /\ last.op # "init" /\ Usable /\ nops < MaxSteps
       /\ \E phone \in CachePhones, cc \in CountryCodes : Invalidate(phone, cc, {})
    \/ /\ last.op # "init" /\ nops < MaxSteps
       /\ ClearAll({})
    \/ \E order \in DirOrders(disk) : InitializeCache(order, {})

SpecAccounting == InitAccounting /\ [][NextAccounting]_vars

\* C38: after every cache operation (initialize, get, set with or without
\* eviction or write failure, invalidate, clear_all) stats.entries_count is
\* the number of entries in the index.
C38_EntriesCountIsIndexSize == stats.entries_count = Cardinality(DOMAIN cache_data)

\* a set whose write failed took its entry out of an index that still holds
\* another entry, and the count is the one entry left
C38_Witness ==
    /\ last.op = "set"
    /\ last.wr # "ok"
    /\ GetCacheKey(last.phone, last.country_code) \notin DOMAIN cache_data
    /\ Cardinality(DOMAIN cache_data) = 1
    /\ stats.entries_count = 1

\* the size charged for the entry of cache_key when set() inserted it or
\* _load_cache loaded it: the length of its file text
ChargedSize(cache_key) == EntryLen(Unscored(cache_data[cache_key]), TRUE)

\* C39: after every cache operation stats.size_bytes is the sum of the sizes
\* charged for the entries now in the index, so it is never negative, it is
\* 0 when the index is empty, and a repeated initialize leaves it as it was.
C39_SizeIsSumOfCharges ==
    stats.size_bytes
      = SumOver(DOMAIN cache_data, [k \in DOMAIN cache_data |-> ChargedSize(k)])

=============================================================================
